---- MODULE Spec2Model ----
(***************************************************************************)
(* Alert evaluation and notification dispatch of marketwatch-ai:           *)
(* services/worker.py (poll loop), services/alert_engine.py (evaluation    *)
(* and trigger claim), services/notifier.py (dispatch), api/alerts.py      *)
(* (owner-side insert and delete of alert rows).                           *)
(*                                                                         *)
(* Prices are integers in ticks of 0.0001.  A dict is a function whose     *)
(* DOMAIN is its key set.  An optional value is a sequence: <<>> is        *)
(* None/null, <<v>> is the value v.  A timestamp is <<"now">> when the     *)
(* worker wrote it and <<"old">> when the row came with it.                *)
(***************************************************************************)
EXTENDS Integers, Sequences, FiniteSets, TLC

\* ------------------------------------------------------------------ bounds
\* Quote prices range over 0..MaxPrice; 0 stands for a missing or zero price.
MaxPrice == 2
\* the largest price and target, in ticks, of an evaluation on its own
MaxTick == 4
MaxSymbols == 12
MaxPasses == 3

\* --------------------------------------------------------------- constants
DefaultPipBuffer == 5
PipLarge == 100
PipSmall == 1

None == <<>>
EmptyDict == [s \in {} |-> 0]

\* ----------------------------------------------------------------- symbols
EURUSD == <<"E", "U", "R", "U", "S", "D">>
USDJPY == <<"U", "S", "D", "J", "P", "Y">>
Symbols == {EURUSD, USDJPY}
\* further symbols an alert row may carry
XRPUSD == <<"X", "R", "P", "U", "S", "D">>
BTCUSD == <<"B", "T", "C", "U", "S", "D">>
XAUUSD == <<"X", "A", "U", "U", "S", "D">>
EvalSymbols == Symbols \cup {XRPUSD, BTCUSD, XAUUSD}

\* Python's `sub in s` on strings.
Contains(s, sub) ==
    \E i \in 1..(Len(s) - Len(sub) + 1) : SubSeq(s, i, i + Len(sub) - 1) = sub

PipTags == {<<"B", "T", "C">>, <<"E", "T", "H">>, <<"X", "R", "P">>,
            <<"G", "O", "L", "D">>, <<"X", "A", "U">>}

_pip_size(symbol) ==
    IF Contains(symbol, <<"J", "P", "Y">>) THEN PipLarge
    ELSE IF \E c \in PipTags : Contains(symbol, c) THEN PipLarge
    ELSE PipSmall

Abs(x) == IF x < 0 THEN -x ELSE x

\* ------------------------------------------------------------- store rows
\* The columns of the alert rows that the core never writes.
SingleIds == {"a1", "a2"}
CorrIds == {"k1", "k2"}
SingleOrder == <<"a1", "a2">>
CorrOrder == <<"k1", "k2">>

Profiles ==
    [a1 |-> [tier |-> "free", telegram_id |-> "tg1", whatsapp |-> "", email |-> "u1@x"],
     a2 |-> [tier |-> "pro", telegram_id |-> "tg2", whatsapp |-> "wa2", email |-> "u2@x"],
     k1 |-> [tier |-> "free", telegram_id |-> "tg1", whatsapp |-> "", email |-> "u1@x"],
     k2 |-> [tier |-> "pro", telegram_id |-> "", whatsapp |-> "wa2", email |-> "u2@x"]]

AlertCols ==
    [a1 |-> [symbol |-> EURUSD, alert_type |-> "cross", direction |-> "above",
             price |-> 2, pip_buffer |-> None, zone_high |-> None],
     a2 |-> [symbol |-> USDJPY, alert_type |-> "touch", direction |-> "below",
             price |-> 2, pip_buffer |-> <<1>>, zone_high |-> None]]

CorrCols ==
    [k1 |-> [symbol1 |-> EURUSD, symbol2 |-> USDJPY, zone_low |-> 2, zone_high |-> 3],
     k2 |-> [symbol1 |-> USDJPY, symbol2 |-> EURUSD, zone_low |-> 1, zone_high |-> 2]]

\* ------------------------------------------------------ condition evaluator
\* Fault variant of TouchTriggered: without a direction only the buffer counts.
TouchTriggeredWithinOnly(direction, target, buffer, price, prev_price) ==
    LET has_prev == prev_price # None
        prev == IF has_prev THEN prev_price[1] ELSE 0
    IN  IF direction = "above"
        THEN price >= target \/ (has_prev /\ prev < target /\ price > target)
        ELSE IF direction = "below"
        THEN price <= target \/ (has_prev /\ prev > target /\ price < target)
        ELSE Abs(price - target) <= buffer

\* Fault variant of TouchTriggered: a price equal to the target does not count.
TouchTriggeredStrict(direction, target, buffer, price, prev_price) ==
    LET has_prev == prev_price # None
        prev == IF has_prev THEN prev_price[1] ELSE 0
    IN  IF direction = "above"
        THEN price > target
        ELSE IF direction = "below"
        THEN price < target
        ELSE Abs(price - target) <= buffer
             \/ (has_prev /\ ((prev < target /\ target <= price)
                              \/ (prev > target /\ target >= price)))

\* alert_engine.py:36-63, alert_type "touch"
TouchTriggered(direction, target, buffer, price, prev_price) ==
    LET has_prev == prev_price # None
        prev == IF has_prev THEN prev_price[1] ELSE 0
    IN  IF direction = "above"
        THEN price >= target \/ (has_prev /\ prev < target /\ price > target)
        ELSE IF direction = "below"
        THEN price <= target \/ (has_prev /\ prev > target /\ price < target)
        ELSE Abs(price - target) <= buffer
             \/ (has_prev /\ ((prev < target /\ target <= price)
                              \/ (prev > target /\ target >= price)))

\* Fault variant of CrossTriggered: without a direction a crossing either way fires.
CrossTriggeredEitherWay(direction, target, price, prev_price) ==
    LET has_prev == prev_price # None
        prev == IF has_prev THEN prev_price[1] ELSE 0
    IN  IF direction = "above"
        THEN IF has_prev THEN prev < target /\ target <= price
             ELSE price >= target
        ELSE IF direction = "below"
        THEN IF has_prev THEN prev > target /\ target >= price
             ELSE price <= target
        ELSE has_prev /\ ((prev < target /\ target <= price)
                          \/ (prev > target /\ target >= price))

\* Fault variant of CrossTriggered: the previous price is not looked at.
CrossTriggeredReachOnly(direction, target, price, prev_price) ==
    IF direction = "above" THEN price >= target
    ELSE IF direction = "below" THEN price <= target
    ELSE FALSE

\* Fault variant of CrossTriggered: without a previous price nothing fires.
CrossTriggeredNeedsPrevious(direction, target, price, prev_price) ==
    LET has_prev == prev_price # None
        prev == IF has_prev THEN prev_price[1] ELSE 0
    IN  IF direction = "above" THEN has_prev /\ prev < target /\ target <= price
        ELSE IF direction = "below" THEN has_prev /\ prev > target /\ target >= price
        ELSE FALSE

\* alert_engine.py:65-75, alert_type "cross"
CrossTriggered(direction, target, price, prev_price) ==
    LET has_prev == prev_price # None
        prev == IF has_prev THEN prev_price[1] ELSE 0
    IN  IF direction = "above"
        THEN IF has_prev THEN prev < target /\ target <= price
             ELSE price >= target
        ELSE IF direction = "below"
        THEN IF has_prev THEN prev > target /\ target >= price
             ELSE price <= target
        ELSE FALSE

\* alert_engine.py:77-78, alert_type "near"
NearTriggered(target, buffer, price) == Abs(price - target) <= buffer

\* Fault variant of ZoneTriggered: the previous price is not looked at.
ZoneTriggeredInsideOnly(target, zone_high, price, prev_price) ==
    IF zone_high = None THEN FALSE
    ELSE target <= price /\ price <= zone_high[1]

\* alert_engine.py:80-91, alert_type "zone"
ZoneTriggered(target, zone_high, price, prev_price) ==
    LET has_prev == prev_price # None
        prev == IF has_prev THEN prev_price[1] ELSE 0
    IN  IF zone_high = None THEN FALSE
        ELSE LET low == target
                 high == zone_high[1]
             IN  IF low <= price /\ price <= high THEN TRUE
                 ELSE IF has_prev
                 THEN (prev < low /\ low <= price) \/ (prev > high /\ high >= price)
                 ELSE FALSE

\* alert_engine._is_triggered; prev_price is None or <<p>>.
_is_triggered(alert, price, prev_price) ==
    LET target == alert.price
        direction == alert.direction
        pip_buf == IF alert.pip_buffer = None \/ alert.pip_buffer[1] = 0
                   THEN DefaultPipBuffer ELSE alert.pip_buffer[1]
        buffer == pip_buf * _pip_size(alert.symbol)
    IN  CASE alert.alert_type = "touch" ->
               TouchTriggered(direction, target, buffer, price, prev_price)
          [] alert.alert_type = "cross" ->
               CrossTriggered(direction, target, price, prev_price)
          [] alert.alert_type = "near" -> NearTriggered(target, buffer, price)
          [] alert.alert_type = "zone" ->
               ZoneTriggered(target, alert.zone_high, price, prev_price)
          [] OTHER -> FALSE

\* Fault variant of PrevPrice: without `or None` a zero is a previous price.
PrevPriceKeepsZero(prevq, symbol) ==
    IF prevq # EmptyDict /\ symbol \in DOMAIN prevq
    THEN <<prevq[symbol]>>
    ELSE None

\* `float(prev_quotes[symbol].get("price", 0)) or None`, guarded by
\* `prev_quotes and symbol in prev_quotes`.
PrevPrice(prevq, symbol) ==
    IF prevq # EmptyDict /\ symbol \in DOMAIN prevq
    THEN IF prevq[symbol] = 0 THEN None ELSE <<prevq[symbol]>>
    ELSE None


\* correlation leg rule of check_correlation_alerts: <<>> when no leg
\* qualifies, else <<triggered_by, triggered_price>> of the first leg that does.
LegQualifies(row, sym, q, prevq) ==
    /\ sym \in DOMAIN q
    /\ q[sym] > 0
    /\ LET price == q[sym]
           pp == PrevPrice(prevq, sym)
           in_zone == row.zone_low <= price /\ price <= row.zone_high
           crossed == pp # None /\ ((pp[1] < row.zone_low /\ row.zone_low <= price)
                                    \/ (pp[1] > row.zone_high /\ row.zone_high >= price))
       IN  in_zone \/ crossed

\* Fault variant of CorrTrigger: the legs are tested in the order symbol2, symbol1.
CorrTriggerSecondLegFirst(row, q, prevq) ==
    IF LegQualifies(row, row.symbol2, q, prevq) THEN <<row.symbol2, q[row.symbol2]>>
    ELSE IF LegQualifies(row, row.symbol1, q, prevq) THEN <<row.symbol1, q[row.symbol1]>>
    ELSE <<>>

CorrTrigger(row, q, prevq) ==
    IF LegQualifies(row, row.symbol1, q, prevq) THEN <<row.symbol1, q[row.symbol1]>>
    ELSE IF LegQualifies(row, row.symbol2, q, prevq) THEN <<row.symbol2, q[row.symbol2]>>
    ELSE <<>>

\* ------------------------------------------------------------------ state
VARIABLES
    alerts,             \* table "alerts": id -> [is_active, triggered_at]
    unused,             \* identifiers no row was ever inserted under
    corr_alerts,        \* table "correlation_alerts": id -> [is_active, triggered_at, triggered_by]
    pc,                 \* position of run_worker
    exc,                \* the call whose exception ended this cycle, "" when none
    prev_quotes,        \* run_worker.prev_quotes
    symbols,            \* run_worker.symbols
    quotes,             \* run_worker.quotes
    result_data,        \* check_alerts.result.data (identifiers)
    triggered_ids,      \* check_alerts.triggered_ids
    notifications,      \* check_alerts.notifications
    corr_result,        \* check_correlation_alerts.result.data (identifiers)
    updates,            \* check_correlation_alerts.updates
    upd_i,              \* number of updates already written by the claim loop
    corr_notifications, \* check_correlation_alerts.notifications
    tasks,              \* coroutines gathered by the dispatcher: id -> [stage, summary, pending]
    handed,             \* how often each alert was handed to the notifier (history)
    empty_cur,          \* this cycle found the interest set empty (history)
    empty_prev,         \* the previous cycle found the interest set empty (history)
    peer,               \* a second evaluator instance: its check_alerts call
    notif,              \* dispatch_notifications under test: firing -> call state
    evalc,              \* one evaluation of one alert row under test
    lifespan,           \* main.lifespan: [phase, at, dropped], where the worker was cancelled
    fetch,              \* one fetch_batch_quotes call under test: its guarded requests
    reminder,           \* run_reminder_worker and table "reminders" under test
    failed              \* the last cycle whose single claim write raised (history)

store == <<alerts, unused, corr_alerts>>
worker == <<pc, exc, prev_quotes, symbols, quotes>>
single_locals == <<result_data, triggered_ids, notifications>>
corr_locals == <<corr_result, updates, upd_i, corr_notifications>>
history == <<handed, empty_cur, empty_prev>>
calls == <<peer, notif, evalc, lifespan, fetch, reminder, failed>>
vars == <<alerts, unused, corr_alerts, pc, exc, prev_quotes, symbols, quotes,
          result_data, triggered_ids, notifications, corr_result, updates, upd_i,
          corr_notifications, tasks, handed, empty_cur, empty_prev, peer, notif,
          evalc, lifespan, fetch, reminder, failed>>

\* datetime.now(timezone.utc).isoformat()
Now == <<"now">>

NewRow == [is_active |-> TRUE, triggered_at |-> None]
Min(a, b) == IF a < b THEN a ELSE b
Range(f) == {f[i] : i \in DOMAIN f}
OrderedSeq(order, S) == SelectSeq(order, LAMBDA x : x \in S)

\* Fault variant of Selected: the `.is_("triggered_at", "null")` filter is missing.
SelectedActiveOnly(row) == row.is_active = TRUE

\* `.eq("is_active", True).is_("triggered_at", "null")`
Selected(row) == row.is_active = TRUE /\ row.triggered_at = None

\* Fault variant of _get_active_symbols: symbol2 of a correlation alert is not added.
ActiveSymbolsFirstLegOnly(al, ca) ==
    LET r == {a \in DOMAIN al : Selected(al[a])}
        rc == {k \in DOMAIN ca : Selected(ca[k])}
    IN  {AlertCols[a].symbol : a \in r} \cup {CorrCols[k].symbol1 : k \in rc}

\* worker._get_active_symbols
_get_active_symbols(al, ca) ==
    LET r == {a \in DOMAIN al : Selected(al[a])}
        rc == {k \in DOMAIN ca : Selected(ca[k])}
    IN  {AlertCols[a].symbol : a \in r}
        \cup {CorrCols[k].symbol1 : k \in rc}
        \cup {CorrCols[k].symbol2 : k \in rc}

\* the read of check_alerts: active, untriggered, symbol in the quoted symbols
ReadAlerts(al, q) ==
    {a \in DOMAIN al : Selected(al[a]) /\ AlertCols[a].symbol \in DOMAIN q}

\* the read of check_correlation_alerts
ReadCorrAlerts(ca) == {k \in DOMAIN ca : Selected(ca[k])}

\* the loop body of check_alerts for one row
AlertFires(a, q, prevq) ==
    LET symbol == AlertCols[a].symbol
    IN  /\ symbol \in DOMAIN q
        /\ q[symbol] > 0
        /\ _is_triggered(AlertCols[a], q[symbol], PrevPrice(prevq, symbol))

\* Fault variant of ClaimedRow: the update leaves is_active as it was.
ClaimedRowStillActive(row, now) == [row EXCEPT !.triggered_at = now]

\* `update({"triggered_at": now, "is_active": False})` on one row
ClaimedRow(row, now) == [row EXCEPT !.is_active = FALSE, !.triggered_at = now]

\* Fault variant of ClaimUpdate: the `.in_("id", triggered_ids)` filter is missing.
ClaimUpdateEveryRow(al, ids, now) == [a \in DOMAIN al |-> ClaimedRow(al[a], now)]

\* `.update(...).in_("id", triggered_ids).execute()`
ClaimUpdate(al, ids, now) ==
    [a \in DOMAIN al |-> IF a \in ids THEN ClaimedRow(al[a], now) ELSE al[a]]

\* Fault variant of ClaimCorrUpdate: the update does not set is_active.
ClaimCorrUpdateKeepsActive(ca, id, now, trig_sym) ==
    [k \in DOMAIN ca |->
        IF k = id THEN [ca[k] EXCEPT !.triggered_at = now, !.triggered_by = <<trig_sym>>]
        ELSE ca[k]]

\* `.update({... "triggered_by": trig_sym}).eq("id", alert_id).execute()`
ClaimCorrUpdate(ca, id, now, trig_sym) ==
    [k \in DOMAIN ca |->
        IF k = id THEN [ClaimedRow(ca[k], now) EXCEPT !.triggered_by = <<trig_sym>>]
        ELSE ca[k]]

\* Fault variant of Channels: the email fallback looks at telegram_id only.
\* Fault variant of Channels: the WhatsApp push is not gated by the tier.
ChannelsWhatsappAnyTier(profile) ==
    LET paid_wa == profile.tier \in {"pro", "elite"} /\ profile.whatsapp # ""
    IN  (IF profile.telegram_id # "" THEN {"telegram"}
         ELSE IF ~paid_wa /\ profile.email # "" THEN {"email"}
         ELSE {})
        \cup (IF profile.whatsapp # "" THEN {"whatsapp"} ELSE {})

ChannelsEmailWithoutTelegram(profile) ==
    LET paid_wa == profile.tier \in {"pro", "elite"} /\ profile.whatsapp # ""
    IN  (IF profile.telegram_id # "" THEN {"telegram"}
         ELSE IF profile.email # "" THEN {"email"}
         ELSE {})
        \cup (IF paid_wa THEN {"whatsapp"} ELSE {})

\* notifier._notify_single, lines 43-84: the channels a firing is sent on
Channels(profile) ==
    LET paid_wa == profile.tier \in {"pro", "elite"} /\ profile.whatsapp # ""
    IN  (IF profile.telegram_id # "" THEN {"telegram"}
         ELSE IF ~paid_wa /\ profile.email # "" THEN {"email"}
         ELSE {})
        \cup (IF paid_wa THEN {"whatsapp"} ELSE {})

\* notifier._notify_correlation: Telegram only
CorrChannels(profile) == IF profile.telegram_id # "" THEN {"telegram"} ELSE {}

\* ------------------------------------------------------------------- init
\* The store is external: rows may exist before the worker starts, and a row
\* may already be inactive or carry an old trigger timestamp.
InactiveRow == [is_active |-> FALSE, triggered_at |-> None]
NewCorrRow == [is_active |-> TRUE, triggered_at |-> None, triggered_by |-> None]
OldCorrRow == [is_active |-> TRUE, triggered_at |-> <<"old">>, triggered_by |-> None]
InitialAlerts ==
    {al \in UNION {[D -> {NewRow, InactiveRow}] : D \in SUBSET SingleIds} :
        /\ "a2" \in DOMAIN al
        /\ "a1" \in DOMAIN al => al["a1"] = NewRow}
InitialCorrAlerts ==
    {ca \in [CorrIds -> {NewCorrRow, OldCorrRow}] : ca["k1"] = NewCorrRow}

NoTasks == [a \in {} |-> 0]

\* run_worker runs alone: no second instance, no call under test
NoPeer == [pc |-> "off"]
\* main.py:28: the worker task has been created and the application serves
Serving == [phase |-> "serving", at |-> "", dropped |-> {}]

\* no fetch_batch_quotes call under test
NoFetch == [pc |-> "off"]

\* no reminder worker under test
NoReminder == [pc |-> "off"]

\* no cycle's claim write has raised
NoFailure == [cycle |-> "none", ids |-> {}, quotes |-> EmptyDict, prev |-> EmptyDict]

NoEval == [pc |-> "off"]

Init ==
    /\ alerts \in InitialAlerts
    /\ unused = SingleIds \ DOMAIN alerts
    /\ corr_alerts \in InitialCorrAlerts
    /\ pc = "start"
    /\ exc = ""
    /\ prev_quotes = EmptyDict
    /\ symbols = {}
    /\ quotes = EmptyDict
    /\ result_data = {}
    /\ triggered_ids = <<>>
    /\ notifications = <<>>
    /\ corr_result = {}
    /\ updates = <<>>
    /\ upd_i = 0
    /\ corr_notifications = <<>>
    /\ tasks = NoTasks
    /\ handed = [a \in SingleIds \cup CorrIds |-> 0]
    /\ empty_cur = FALSE
    /\ empty_prev = FALSE
    /\ lifespan = Serving
    /\ fetch = NoFetch
    /\ reminder = NoReminder
    /\ failed = NoFailure
    /\ peer = NoPeer
    /\ notif = NoTasks
    /\ evalc = NoEval

\* ------------------------------------------------------- owner-side API
\* api/alerts.py create_alert: the insert leaves is_active and triggered_at
\* to the column defaults.  Identifiers are never reused.
CreateAlert(a) ==
    /\ a \in unused
    /\ alerts' = (a :> NewRow) @@ alerts
    /\ unused' = unused \ {a}
    /\ UNCHANGED <<corr_alerts, worker, single_locals, corr_locals, tasks, history>>
    /\ UNCHANGED calls

\* The rows the owner asks to delete during a run.
Deletable == {"a2"}

\* api/alerts.py delete_alert
DeleteAlert(a) ==
    /\ a \in DOMAIN alerts
    /\ alerts' = [x \in DOMAIN alerts \ {a} |-> alerts[x]]
    /\ UNCHANGED <<unused, corr_alerts, worker, single_locals, corr_locals, tasks,
                   history>>
    /\ UNCHANGED calls

\* ------------------------------------------------------------- run_worker
\* An exception leaves the try block (worker.py:56-67).
Raise(call) ==
    /\ pc' = "raised"
    /\ exc' = call

\* worker.py:57-60, the interest set is not empty
GetActiveSymbols ==
    /\ pc = "start"
    /\ _get_active_symbols(alerts, corr_alerts) # {}
    /\ symbols' = _get_active_symbols(alerts, corr_alerts)
    /\ pc' = "fetch"
    /\ UNCHANGED <<store, exc, prev_quotes, quotes, single_locals, corr_locals,
                   tasks, history>>
    /\ UNCHANGED calls

\* Fault variant of NoActiveSymbols: the snapshot is not cleared.
NoActiveSymbolsKeepSnapshot ==
    /\ pc = "start"
    /\ _get_active_symbols(alerts, corr_alerts) = {}
    /\ symbols' = {}
    /\ empty_cur' = TRUE
    /\ pc' = "sleep"
    /\ UNCHANGED <<store, exc, prev_quotes, quotes, single_locals, corr_locals, tasks,
                   handed, empty_prev>>
    /\ UNCHANGED calls

\* worker.py:57-59 and 65-67, the interest set is empty
NoActiveSymbols ==
    /\ pc = "start"
    /\ _get_active_symbols(alerts, corr_alerts) = {}
    /\ symbols' = {}
    /\ prev_quotes' = EmptyDict
    /\ empty_cur' = TRUE
    /\ pc' = "sleep"
    /\ UNCHANGED <<store, exc, quotes, single_locals, corr_locals, tasks, handed,
                   empty_prev>>
    /\ UNCHANGED calls

\* a store read of _get_active_symbols raises
GetActiveSymbolsRaise ==
    /\ pc = "start"
    /\ Raise("_get_active_symbols")
    /\ UNCHANGED <<store, prev_quotes, symbols, quotes, single_locals, corr_locals,
                   tasks, history>>
    /\ UNCHANGED calls

\* fmp.fetch_batch_quotes: any subset of the requested symbols is priced
QuoteDicts(S) == UNION {[Q -> 0..MaxPrice] : Q \in SUBSET S}

\* Fault variant of FetchBatchQuotes: without the handler of _fetch_single the
\* exception of one symbol's fetch leaves the gather and fails the batch.
FetchBatchQuotesFailsWhole ==
    /\ pc = "fetch"
    /\ \E q \in QuoteDicts(symbols) :
          IF DOMAIN q = symbols
          THEN /\ quotes' = q
               /\ pc' = IF q # EmptyDict THEN "check_alerts" ELSE "sleep"
               /\ exc' = exc
          ELSE /\ quotes' = quotes
               /\ Raise("fetch_batch_quotes")
    /\ UNCHANGED <<store, prev_quotes, symbols, single_locals, corr_locals,
                   tasks, history>>
    /\ UNCHANGED calls

\* worker.py:60-61
FetchBatchQuotes ==
    /\ pc = "fetch"
    /\ \E q \in QuoteDicts(symbols) :
          /\ quotes' = q
          /\ pc' = IF q # EmptyDict THEN "check_alerts" ELSE "sleep"
    /\ UNCHANGED <<store, exc, prev_quotes, symbols, single_locals, corr_locals,
                   tasks, history>>
    /\ UNCHANGED calls

\* ------------------------------------------------------------ check_alerts
\* Fault variant of CheckAlerts: the evaluation loop stores each quote it has
\* used into the prev_quotes dict it was passed.
CheckAlertsWritesSnapshot ==
    /\ pc = "check_alerts"
    /\ LET data == ReadAlerts(alerts, quotes)
           fired == OrderedSeq(SingleOrder,
                               {a \in data : AlertFires(a, quotes, prev_quotes)})
       IN  /\ result_data' = data
           /\ triggered_ids' = fired
           /\ notifications' = [i \in DOMAIN fired |->
                                   [alert |-> fired[i],
                                    price |-> quotes[AlertCols[fired[i]].symbol],
                                    symbol |-> AlertCols[fired[i]].symbol]]
           /\ prev_quotes' = [s \in {AlertCols[a].symbol : a \in data} |-> quotes[s]]
                                 @@ prev_quotes
    /\ pc' = "claim"
    /\ UNCHANGED <<store, exc, symbols, quotes, corr_locals, tasks, history>>
    /\ UNCHANGED calls

\* alert_engine.py:103-149: the read and the evaluation loop
CheckAlerts ==
    /\ pc = "check_alerts"
    /\ LET data == ReadAlerts(alerts, quotes)
           fired == OrderedSeq(SingleOrder,
                               {a \in data : AlertFires(a, quotes, prev_quotes)})
       IN  /\ result_data' = data
           /\ triggered_ids' = fired
           /\ notifications' = [i \in DOMAIN fired |->
                                   [alert |-> fired[i],
                                    price |-> quotes[AlertCols[fired[i]].symbol],
                                    symbol |-> AlertCols[fired[i]].symbol]]
    /\ pc' = "claim"
    /\ UNCHANGED <<store, exc, prev_quotes, symbols, quotes, corr_locals, tasks,
                   history>>
    /\ UNCHANGED calls

\* Fault variant of CheckAlertsRaise: check_alerts has a handler of its own,
\* and run_worker goes on to the correlation evaluation.
CheckAlertsRaiseIsolated ==
    /\ pc = "check_alerts"
    /\ exc' = "check_alerts.select"
    /\ pc' = "check_corr"
    /\ UNCHANGED <<store, prev_quotes, symbols, quotes, single_locals, corr_locals,
                   tasks, history>>
    /\ UNCHANGED calls

\* the read of check_alerts raises
CheckAlertsRaise ==
    /\ pc = "check_alerts"
    /\ Raise("check_alerts.select")
    /\ UNCHANGED <<store, prev_quotes, symbols, quotes, single_locals, corr_locals,
                   tasks, history>>
    /\ UNCHANGED calls

\* alert_engine.py:113-114 and 151-152: nothing read or nothing fired
CheckAlertsReturn ==
    /\ pc = "claim"
    /\ triggered_ids = <<>>
    /\ result_data' = {}
    /\ UNCHANGED <<triggered_ids, notifications>>
    /\ pc' = "check_corr"
    /\ UNCHANGED <<store, exc, prev_quotes, symbols, quotes, corr_locals, tasks,
                   history>>
    /\ UNCHANGED calls

\* alert_engine.py:154-157: the batched claim write returns
ClaimAlerts ==
    /\ pc = "claim"
    /\ triggered_ids # <<>>
    /\ alerts' = ClaimUpdate(alerts, Range(triggered_ids), Now)
    /\ pc' = "dispatch"
    /\ UNCHANGED <<unused, corr_alerts, exc, prev_quotes, symbols, quotes,
                   single_locals, corr_locals, tasks, history>>
    /\ UNCHANGED calls

\* Fault variant of ClaimAlertsRaise: the exception of the claim write is
\* swallowed and check_alerts goes on to dispatch.
ClaimAlertsRaiseSwallowed ==
    /\ pc = "claim"
    /\ triggered_ids # <<>>
    /\ exc' = "check_alerts.update"
    /\ pc' = "dispatch"
    /\ UNCHANGED <<store, prev_quotes, symbols, quotes, single_locals, corr_locals,
                   tasks, history>>
    /\ UNCHANGED calls

\* Fault variant of ClaimAlertsRaise: the snapshot is advanced to this cycle's
\* quotes although the claim write raised.
ClaimAlertsRaiseAdvances ==
    /\ pc = "claim"
    /\ triggered_ids # <<>>
    /\ Raise("check_alerts.update")
    /\ prev_quotes' = quotes
    /\ UNCHANGED <<store, symbols, quotes, single_locals, corr_locals, tasks, history>>
    /\ UNCHANGED calls

\* alert_engine.py:155-157: the claim write raises, no row is changed
ClaimAlertsRaise ==
    /\ pc = "claim"
    /\ triggered_ids # <<>>
    /\ Raise("check_alerts.update")
    /\ UNCHANGED <<store, prev_quotes, symbols, quotes, single_locals, corr_locals,
                   tasks, history>>
    /\ UNCHANGED calls

Handed(h, ids) == [a \in DOMAIN h |-> IF a \in ids THEN Min(h[a] + 1, 2) ELSE h[a]]

\* Fault variant of DispatchNotifications: a notification is built for every
\* row read, fired or not.
DispatchNotificationsEveryRow ==
    /\ pc = "dispatch"
    /\ tasks' = [a \in result_data |->
                    [stage |-> "summary", summary |-> "", pending |-> {}]]
    /\ handed' = Handed(handed, result_data)
    /\ pc' = "notify"
    /\ UNCHANGED <<store, exc, prev_quotes, symbols, quotes, single_locals,
                   corr_locals, empty_cur, empty_prev>>
    /\ UNCHANGED calls

\* alert_engine.py:159-160, notifier.py:103-107: one _notify_single per firing,
\* each starting with its summary request
DispatchNotifications ==
    /\ pc = "dispatch"
    /\ tasks' = [a \in Range(triggered_ids) |->
                    [stage |-> "summary", summary |-> "", pending |-> {}]]
    /\ handed' = Handed(handed, Range(triggered_ids))
    /\ pc' = "notify"
    /\ UNCHANGED <<store, exc, prev_quotes, symbols, quotes, single_locals,
                   corr_locals, empty_cur, empty_prev>>
    /\ UNCHANGED calls

\* notifier.py:34-84: the summary request returns or fails (fallback text),
\* then the sends of the eligible channels start
GenerateSummary(a) ==
    /\ a \in DOMAIN tasks
    /\ tasks[a].stage = "summary"
    /\ \E ok \in BOOLEAN :
          tasks' = [tasks EXCEPT ![a] =
                       [stage |-> IF Channels(Profiles[a]) = {} THEN "done" ELSE "send",
                        summary |-> IF ok THEN "ai" ELSE "fallback",
                        pending |-> Channels(Profiles[a])]]
    /\ UNCHANGED <<store, worker, single_locals, corr_locals, history>>
    /\ UNCHANGED calls

\* notifier.py:86-90 and 126-136: one channel send completes, with success or
\* failure; the firing is done when none is pending
SendReturn(a, ch) ==
    /\ a \in DOMAIN tasks
    /\ tasks[a].stage = "send"
    /\ ch \in tasks[a].pending
    /\ tasks' = [tasks EXCEPT ![a] =
                    [@ EXCEPT !.pending = @ \ {ch},
                              !.stage = IF tasks[a].pending = {ch} THEN "done" ELSE "send"]]
    /\ UNCHANGED <<store, worker, single_locals, corr_locals, history>>
    /\ UNCHANGED calls

AllDone == \A a \in DOMAIN tasks : tasks[a].stage = "done"

\* Fault variant of DispatchReturn: the coroutines are started and not awaited.
DispatchReturnNotAwaited ==
    /\ pc = "notify"
    /\ result_data' = {}
    /\ triggered_ids' = <<>>
    /\ notifications' = <<>>
    /\ pc' = "check_corr"
    /\ UNCHANGED <<store, exc, prev_quotes, symbols, quotes, corr_locals, tasks, history>>
    /\ UNCHANGED calls

\* notifier.py:107: the gather returns, and with it check_alerts
DispatchReturn ==
    /\ pc = "notify"
    /\ AllDone
    /\ tasks' = NoTasks
    /\ result_data' = {}
    /\ triggered_ids' = <<>>
    /\ notifications' = <<>>
    /\ pc' = "check_corr"
    /\ UNCHANGED <<store, exc, prev_quotes, symbols, quotes, corr_locals, history>>
    /\ UNCHANGED calls

\* ------------------------------------------------ check_correlation_alerts
\* alert_engine.py:170-225: the read and the evaluation loop
CheckCorrelationAlerts ==
    /\ pc = "check_corr"
    /\ LET data == ReadCorrAlerts(corr_alerts)
           fired == OrderedSeq(CorrOrder,
                               {k \in data : CorrTrigger(CorrCols[k], quotes, prev_quotes) # <<>>})
       IN  /\ corr_result' = data
           /\ updates' = [i \in DOMAIN fired |->
                             <<fired[i], CorrTrigger(CorrCols[fired[i]], quotes, prev_quotes)[1]>>]
           /\ corr_notifications' = [i \in DOMAIN fired |->
                             [alert |-> fired[i],
                              symbol |-> CorrTrigger(CorrCols[fired[i]], quotes, prev_quotes)[1],
                              price |-> CorrTrigger(CorrCols[fired[i]], quotes, prev_quotes)[2]]]
    /\ upd_i' = 0
    /\ pc' = "claim_corr"
    /\ UNCHANGED <<store, exc, prev_quotes, symbols, quotes, single_locals, tasks,
                   history>>
    /\ UNCHANGED calls

\* the read of check_correlation_alerts raises
CheckCorrelationAlertsRaise ==
    /\ pc = "check_corr"
    /\ Raise("check_correlation_alerts.select")
    /\ UNCHANGED <<store, prev_quotes, symbols, quotes, single_locals, corr_locals,
                   tasks, history>>
    /\ UNCHANGED calls

\* alert_engine.py:177-178 and 227-228: nothing read or nothing fired
CheckCorrelationAlertsReturn ==
    /\ pc = "claim_corr"
    /\ updates = <<>>
    /\ corr_result' = {}
    /\ UNCHANGED <<updates, upd_i, corr_notifications>>
    /\ pc' = "advance"
    /\ UNCHANGED <<store, exc, prev_quotes, symbols, quotes, single_locals, tasks,
                   history>>
    /\ UNCHANGED calls

\* alert_engine.py:231-234: one pass of the claim loop, one row written
ClaimCorrelationAlert ==
    /\ pc = "claim_corr"
    /\ upd_i < Len(updates)
    /\ corr_alerts' = ClaimCorrUpdate(corr_alerts, updates[upd_i + 1][1], Now,
                                      updates[upd_i + 1][2])
    /\ upd_i' = upd_i + 1
    /\ UNCHANGED <<alerts, unused, worker, single_locals, corr_result, updates,
                   corr_notifications, tasks, history>>
    /\ UNCHANGED calls

\* alert_engine.py:232-234: the write of one pass raises; the rows written by
\* the passes before it stay written
ClaimCorrelationAlertRaise ==
    /\ pc = "claim_corr"
    /\ upd_i < Len(updates)
    /\ Raise("check_correlation_alerts.update")
    /\ UNCHANGED <<store, prev_quotes, symbols, quotes, single_locals, corr_locals,
                   tasks, history>>
    /\ UNCHANGED calls

CorrIdsOf(ns) == {ns[i].alert : i \in DOMAIN ns}

\* alert_engine.py:236-237, notifier.py:110-136: one _notify_correlation per
\* firing; without a telegram_id it returns at once
DispatchCorrelationNotifications ==
    /\ pc = "claim_corr"
    /\ updates # <<>>
    /\ upd_i = Len(updates)
    /\ tasks' = [k \in CorrIdsOf(corr_notifications) |->
                    [stage |-> IF CorrChannels(Profiles[k]) = {} THEN "done" ELSE "send",
                     summary |-> "",
                     pending |-> CorrChannels(Profiles[k])]]
    /\ handed' = Handed(handed, CorrIdsOf(corr_notifications))
    /\ pc' = "notify_corr"
    /\ UNCHANGED <<store, exc, prev_quotes, symbols, quotes, single_locals,
                   corr_locals, empty_cur, empty_prev>>
    /\ UNCHANGED calls

\* notifier.py:136: the gather returns, and with it check_correlation_alerts
DispatchCorrelationReturn ==
    /\ pc = "notify_corr"
    /\ AllDone
    /\ tasks' = NoTasks
    /\ corr_result' = {}
    /\ updates' = <<>>
    /\ upd_i' = 0
    /\ corr_notifications' = <<>>
    /\ pc' = "advance"
    /\ UNCHANGED <<store, exc, prev_quotes, symbols, quotes, single_locals, history>>
    /\ UNCHANGED calls

\* worker.py:64
AdvanceSnapshot ==
    /\ pc = "advance"
    /\ prev_quotes' = [s \in DOMAIN quotes |-> quotes[s]]
    /\ pc' = "sleep"
    /\ UNCHANGED <<store, exc, symbols, quotes, single_locals, corr_locals, tasks,
                   history>>
    /\ UNCHANGED calls

\* Fault variant of WorkerCatch: the handler also drops the snapshot.
WorkerCatchClearsSnapshot ==
    /\ pc = "raised"
    /\ pc' = "sleep"
    /\ prev_quotes' = EmptyDict
    /\ result_data' = {}
    /\ triggered_ids' = <<>>
    /\ notifications' = <<>>
    /\ corr_result' = {}
    /\ updates' = <<>>
    /\ upd_i' = 0
    /\ corr_notifications' = <<>>
    /\ UNCHANGED <<store, exc, symbols, quotes, tasks, history>>
    /\ UNCHANGED calls

\* Fault variant of WorkerCatch: no handler, the exception ends run_worker.
WorkerCrash ==
    /\ pc = "raised"
    /\ pc' = "crashed"
    /\ UNCHANGED <<store, exc, prev_quotes, symbols, quotes, single_locals, corr_locals,
                   tasks, history>>
    /\ UNCHANGED calls

\* worker.py:69-70: the handler logs the exception and falls through to the
\* sleep; the frames of the call that raised are gone
WorkerCatch ==
    /\ pc = "raised"
    /\ pc' = "sleep"
    /\ result_data' = {}
    /\ triggered_ids' = <<>>
    /\ notifications' = <<>>
    /\ corr_result' = {}
    /\ updates' = <<>>
    /\ upd_i' = 0
    /\ corr_notifications' = <<>>
    /\ UNCHANGED <<store, exc, prev_quotes, symbols, quotes, tasks, history>>
    /\ UNCHANGED calls

\* worker.py:72 and 55: the sleep elapses and the next pass of the loop starts
\* with fresh locals
Sleep ==
    /\ pc = "sleep"
    /\ pc' = "start"
    /\ exc' = ""
    /\ symbols' = {}
    /\ quotes' = EmptyDict
    /\ empty_prev' = empty_cur
    /\ empty_cur' = FALSE
    /\ UNCHANGED <<store, prev_quotes, single_locals, corr_locals, tasks, handed>>
    /\ UNCHANGED calls

\* ------------------------------------------------------------ shutdown
\* The awaits at which run_worker can be suspended when another task runs: the
\* task not yet resumed (created, or woken from the sleep), the quote fetch
\* (worker.py:60, fmp.py:47), the two notification gathers (notifier.py:107,
\* 136) and the sleep (worker.py:72). The database calls are synchronous.
SuspensionPoints == {"start", "fetch", "notify", "notify_corr", "sleep"}

\* The suspension points that lie inside the try block of worker.py:56-68.
InsideTry == {"fetch", "notify", "notify_corr"}

\* the firings whose notifier coroutine has not returned
Unfinished(ts) == {a \in DOMAIN ts : ts[a].stage # "done"}

\* Fault variant of CancelWorker: the claim of a firing whose notification was
\* cut off is undone.
CancelWorkerRollsBack ==
    /\ lifespan.phase = "serving"
    /\ pc \in SuspensionPoints
    /\ lifespan' = [phase |-> "awaiting", at |-> pc, dropped |-> Unfinished(tasks)]
    /\ pc' = "cancelled"
    /\ tasks' = NoTasks
    /\ alerts' = [a \in DOMAIN alerts |->
                     IF a \in Unfinished(tasks) THEN NewRow ELSE alerts[a]]
    /\ UNCHANGED <<unused, corr_alerts, exc, prev_quotes, symbols, quotes, single_locals,
                   corr_locals, history, peer, notif, evalc, fetch, reminder, failed>>

\* Fault variant of CancelWorker: the handler of worker.py:69 catches the
\* cancellation as it catches any exception, and the loop goes on.
CancelWorkerSwallowed ==
    /\ lifespan.phase = "serving"
    /\ pc \in SuspensionPoints
    /\ lifespan' = [phase |-> "awaiting", at |-> pc, dropped |-> Unfinished(tasks)]
    /\ pc' = IF pc \in InsideTry THEN "raised" ELSE "cancelled"
    /\ tasks' = NoTasks
    /\ UNCHANGED <<store, exc, prev_quotes, symbols, quotes, single_locals, corr_locals,
                   history, peer, notif, evalc, fetch, reminder, failed>>

\* main.py:34-35 and worker.py:55-72: task.cancel() throws CancelledError into
\* run_worker at the await it is suspended on and cancels the coroutines of a
\* pending gather with it; CancelledError is not an Exception, so neither the
\* handlers of the notifier and of the fetch nor worker.py:69 catch it, and
\* run_worker ends
CancelWorker ==
    /\ lifespan.phase = "serving"
    /\ pc \in SuspensionPoints
    /\ lifespan' = [phase |-> "awaiting", at |-> pc, dropped |-> Unfinished(tasks)]
    /\ pc' = "cancelled"
    /\ tasks' = NoTasks
    /\ UNCHANGED <<store, exc, prev_quotes, symbols, quotes, single_locals, corr_locals,
                   history, peer, notif, evalc, fetch, reminder, failed>>

\* main.py:35-37: the await of the cancelled task returns with CancelledError,
\* which lifespan discards
AwaitWorker ==
    /\ lifespan.phase = "awaiting"
    /\ pc = "cancelled"
    /\ lifespan' = [lifespan EXCEPT !.phase = "stopped"]
    /\ UNCHANGED <<store, worker, single_locals, corr_locals, tasks, history, peer,
                   notif, evalc, fetch, reminder, failed>>

\* ------------------------------------------------------------------- next
WorkerStep ==
    \/ GetActiveSymbols
    \/ NoActiveSymbols
    \/ GetActiveSymbolsRaise
    \/ FetchBatchQuotes
    \/ CheckAlerts
    \/ CheckAlertsRaise
    \/ CheckAlertsReturn
    \/ ClaimAlerts
    \/ ClaimAlertsRaise
    \/ DispatchNotifications
    \/ DispatchReturn
    \/ CheckCorrelationAlerts
    \/ CheckCorrelationAlertsRaise
    \/ CheckCorrelationAlertsReturn
    \/ ClaimCorrelationAlert
    \/ ClaimCorrelationAlertRaise
    \/ DispatchCorrelationNotifications
    \/ DispatchCorrelationReturn
    \/ AdvanceSnapshot
    \/ WorkerCatch
    \/ Sleep

NotifierStep ==
    \/ \E a \in SingleIds : GenerateSummary(a)
    \/ \E a \in SingleIds \cup CorrIds : \E ch \in {"telegram", "whatsapp", "email"} :
          SendReturn(a, ch)

OwnerStep ==
    \/ \E a \in SingleIds : CreateAlert(a)
    \/ \E a \in Deletable : DeleteAlert(a)

Next == WorkerStep \/ NotifierStep \/ OwnerStep

Spec == Init /\ [][Next]_vars

\* The application with its shutdown: main.lifespan cancels and awaits the
\* worker task at any moment the worker is suspended.
LifespanStep == CancelWorker \/ AwaitWorker

NextShutdown == Next \/ LifespanStep

SpecShutdown == Init /\ [][NextShutdown]_vars

\* main.py:26-32 and worker.py:49-53 in a new process after the shutdown: a
\* new worker task starts with an empty snapshot on the store as it was left
Restart ==
    /\ lifespan.phase = "stopped"
    /\ lifespan' = [lifespan EXCEPT !.phase = "serving"]
    /\ pc' = "start"
    /\ exc' = ""
    /\ prev_quotes' = EmptyDict
    /\ symbols' = {}
    /\ quotes' = EmptyDict
    /\ result_data' = {}
    /\ triggered_ids' = <<>>
    /\ notifications' = <<>>
    /\ corr_result' = {}
    /\ updates' = <<>>
    /\ upd_i' = 0
    /\ corr_notifications' = <<>>
    /\ empty_cur' = FALSE
    /\ empty_prev' = FALSE
    /\ UNCHANGED <<store, tasks, handed, peer, notif, evalc, fetch, reminder, failed>>

\* The worker, its notifier coroutines and the shutdowns and restarts of the
\* process; no owner changes a row.
NextRestart == WorkerStep \/ NotifierStep \/ LifespanStep \/ Restart

SpecRestart == Init /\ [][NextRestart]_vars

\* The event loop keeps running the worker and the gathered coroutines, and
\* every external call returns or fails within its timeout.
FairSpec == Spec /\ WF_vars(WorkerStep) /\ WF_vars(NotifierStep)

\* ------------------------------------------- two evaluator instances
\* A second process runs the same check_alerts (alert_engine.py:96-160) against
\* the same table; its locals live in `peer`.  Both calls start from the read.
PeerStart(q) ==
    [pc |-> "check_alerts", quotes |-> q, prev_quotes |-> EmptyDict,
     result_data |-> {}, triggered_ids |-> <<>>,
     handed |-> [a \in SingleIds |-> 0]]

\* alert_engine.py:103-149 in the second instance
PeerCheckAlerts ==
    /\ peer.pc = "check_alerts"
    /\ LET data == ReadAlerts(alerts, peer.quotes)
           fired == OrderedSeq(SingleOrder,
                               {a \in data : AlertFires(a, peer.quotes, peer.prev_quotes)})
       IN  peer' = [peer EXCEPT !.result_data = data, !.triggered_ids = fired,
                                !.pc = "claim"]
    /\ UNCHANGED <<store, worker, single_locals, corr_locals, tasks, history, notif,
                   evalc, lifespan, fetch, reminder, failed>>

\* alert_engine.py:113-114 and 151-152 in the second instance
PeerCheckAlertsReturn ==
    /\ peer.pc = "claim"
    /\ peer.triggered_ids = <<>>
    /\ peer' = [peer EXCEPT !.result_data = {}, !.pc = "returned"]
    /\ UNCHANGED <<store, worker, single_locals, corr_locals, tasks, history, notif,
                   evalc, lifespan, fetch, reminder, failed>>

\* Fault variant of PeerClaimAlerts: the write is conditional on the row still
\* being open, and only the rows it changed are kept for the dispatch.
PeerClaimAlertsConditional ==
    /\ peer.pc = "claim"
    /\ peer.triggered_ids # <<>>
    /\ LET ids == {a \in Range(peer.triggered_ids) :
                      a \in DOMAIN alerts /\ Selected(alerts[a])}
       IN  /\ alerts' = ClaimUpdate(alerts, ids, Now)
           /\ peer' = [peer EXCEPT !.triggered_ids = OrderedSeq(SingleOrder, ids),
                                    !.pc = "dispatch"]
    /\ UNCHANGED <<unused, corr_alerts, worker, single_locals, corr_locals, tasks,
                   history, notif, evalc, lifespan, fetch, reminder, failed>>

\* alert_engine.py:154-157 in the second instance: the write names the rows by
\* id only, and its result is not looked at
PeerClaimAlerts ==
    /\ peer.pc = "claim"
    /\ peer.triggered_ids # <<>>
    /\ alerts' = ClaimUpdate(alerts, Range(peer.triggered_ids), Now)
    /\ peer' = [peer EXCEPT !.pc = "dispatch"]
    /\ UNCHANGED <<unused, corr_alerts, worker, single_locals, corr_locals, tasks,
                   history, notif, evalc, lifespan, fetch, reminder, failed>>

\* alert_engine.py:159-160 in the second instance
PeerDispatchNotifications ==
    /\ peer.pc = "dispatch"
    /\ peer' = [peer EXCEPT !.handed = Handed(peer.handed, Range(peer.triggered_ids)),
                            !.result_data = {}, !.triggered_ids = <<>>,
                            !.pc = "returned"]
    /\ UNCHANGED <<store, worker, single_locals, corr_locals, tasks, history, notif,
                   evalc, lifespan, fetch, reminder, failed>>

\* Both instances have fetched their quotes and enter check_alerts.
InitTwo ==
    /\ alerts \in InitialAlerts
    /\ unused = SingleIds \ DOMAIN alerts
    /\ corr_alerts = [k \in CorrIds |-> NewCorrRow]
    /\ pc = "check_alerts"
    /\ exc = ""
    /\ prev_quotes = EmptyDict
    /\ symbols = _get_active_symbols(alerts, corr_alerts)
    /\ quotes \in QuoteDicts(symbols) \ {EmptyDict}
    /\ result_data = {}
    /\ triggered_ids = <<>>
    /\ notifications = <<>>
    /\ corr_result = {}
    /\ updates = <<>>
    /\ upd_i = 0
    /\ corr_notifications = <<>>
    /\ tasks = NoTasks
    /\ handed = [a \in SingleIds \cup CorrIds |-> 0]
    /\ empty_cur = FALSE
    /\ empty_prev = FALSE
    /\ lifespan = Serving
    /\ fetch = NoFetch
    /\ reminder = NoReminder
    /\ failed = NoFailure
    /\ peer \in {PeerStart(q) : q \in QuoteDicts(symbols) \ {EmptyDict}}
    /\ notif = NoTasks
    /\ evalc = NoEval

NextTwo ==
    \/ CheckAlerts
    \/ CheckAlertsReturn
    \/ ClaimAlerts
    \/ DispatchNotifications
    \/ \E a \in SingleIds : GenerateSummary(a)
    \/ \E a \in SingleIds : \E ch \in {"telegram", "whatsapp", "email"} : SendReturn(a, ch)
    \/ DispatchReturn
    \/ PeerCheckAlerts
    \/ PeerCheckAlertsReturn
    \/ PeerClaimAlerts
    \/ PeerDispatchNotifications

SpecTwo == InitTwo /\ [][NextTwo]_vars

\* ------------------------------------------------- the notifier, call by call
\* dispatch_notifications / dispatch_correlation_notifications called with two
\* claimed firings; `notif` holds one coroutine per firing.
Firings == {"n1", "n2"}
ChannelNames == {"telegram", "whatsapp", "email"}

\* the joined profiles row: a missing or empty column is ""
AllProfiles ==
    [tier : {"free", "pro", "elite"}, telegram_id : {"", "tg"},
     whatsapp : {"", "wa"}, email : {"", "em"}]
BothLinked == [tier |-> "pro", telegram_id |-> "tg", whatsapp |-> "wa", email |-> "em"]

\* ai.generate_alert_summary: the completion has text, has no text, or the
\* request raises (API error) or times out (APITimeoutError)
SummaryOutcomes == {"text", "empty", "raise", "timeout"}

\* ai.py:129 `return response.choices[0].message.content or ""`, and
\* notifier.py:35-41: the fallback sentence is used when the call raised
AiSummary(outcome) ==
    IF outcome \in {"raise", "timeout"} THEN "fallback"
    ELSE IF outcome = "text" THEN "ai"
    ELSE ""

\* a channel sender returns True, returns False, or raises
SendResults == {"ok", "failed", "raised"}

NotifyStart(kind, profile) ==
    [kind |-> kind, profile |-> profile, stage |-> "start", outcome |-> "",
     ai_summary |-> "unset", pending |-> {},
     sent |-> [ch \in ChannelNames |-> 0],
     result |-> [ch \in ChannelNames |-> "none"],
     error |-> FALSE]

\* notifier.py:34-84: the summary call ends, the coroutines of the eligible
\* channels are built; notifier.py:86: without any, gather is not called
NotifySummary(f) ==
    /\ notif[f].kind = "single"
    /\ notif[f].stage = "start"
    /\ \E out \in SummaryOutcomes :
          notif' = [notif EXCEPT ![f] =
                       [@ EXCEPT !.outcome = out,
                                 !.ai_summary = AiSummary(out),
                                 !.pending = Channels(notif[f].profile),
                                 !.stage = IF Channels(notif[f].profile) = {}
                                           THEN "done" ELSE "send"]]
    /\ UNCHANGED <<store, worker, single_locals, corr_locals, tasks, history, peer,
                   evalc, lifespan, fetch, reminder, failed>>

\* notifier.py:115-134: _notify_correlation returns without a telegram_id,
\* else awaits send_correlation_alert
NotifyCorrelation(f) ==
    /\ notif[f].kind = "correlation"
    /\ notif[f].stage = "start"
    /\ notif' = [notif EXCEPT ![f] =
                    [@ EXCEPT !.pending = CorrChannels(notif[f].profile),
                              !.stage = IF CorrChannels(notif[f].profile) = {}
                                        THEN "done" ELSE "send"]]
    /\ UNCHANGED <<store, worker, single_locals, corr_locals, tasks, history, peer,
                   evalc, lifespan, fetch, reminder, failed>>

SentOnce(n, ch, res) ==
    [n EXCEPT !.sent[ch] = Min(@ + 1, 2), !.result[ch] = res]

\* Fault variant of NotifySendReturn: the sends are awaited one by one without
\* a handler, so a sender that raises ends the coroutine and the channels
\* still waiting are dropped.
NotifySendReturnUnisolated(f, ch) ==
    /\ notif[f].stage = "send"
    /\ ch \in notif[f].pending
    /\ \E res \in SendResults :
          notif' = [notif EXCEPT ![f] =
                       IF res = "raised"
                       THEN [SentOnce(@, ch, res) EXCEPT !.pending = {}, !.stage = "done",
                                                        !.error = TRUE]
                       ELSE [SentOnce(@, ch, res) EXCEPT
                               !.pending = @ \ {ch},
                               !.stage = IF notif[f].pending = {ch} THEN "done" ELSE "send"]]
    /\ UNCHANGED <<store, worker, single_locals, corr_locals, tasks, history, peer,
                   evalc, lifespan, fetch, reminder, failed>>

\* Fault variant of NotifySendReturn: a send that failed is scheduled again.
NotifySendReturnRetry(f, ch) ==
    /\ notif[f].stage = "send"
    /\ ch \in notif[f].pending
    /\ \E res \in SendResults :
          notif' = [notif EXCEPT ![f] =
                       IF res # "ok" /\ notif[f].sent[ch] = 0
                       THEN SentOnce(@, ch, res)
                       ELSE [SentOnce(@, ch, res) EXCEPT
                               !.pending = @ \ {ch},
                               !.stage = IF notif[f].pending = {ch} THEN "done" ELSE "send"]]
    /\ UNCHANGED <<store, worker, single_locals, corr_locals, tasks, history, peer,
                   evalc, lifespan, fetch, reminder, failed>>

\* notifier.py:86-90 and 126-136: one gathered send ends, by returning True or
\* False or by raising; gather(return_exceptions=True) keeps the exception as a
\* result, and the coroutine ends when no send is pending
NotifySendReturn(f, ch) ==
    /\ notif[f].stage = "send"
    /\ ch \in notif[f].pending
    /\ \E res \in SendResults :
          notif' = [notif EXCEPT ![f] =
                       [SentOnce(@, ch, res) EXCEPT
                          !.pending = @ \ {ch},
                          !.stage = IF notif[f].pending = {ch} THEN "done" ELSE "send"]]
    /\ UNCHANGED <<store, worker, single_locals, corr_locals, tasks, history, peer,
                   evalc, lifespan, fetch, reminder, failed>>

\* The worker is between two cycles while the call under test runs.
WorkerIdle ==
    /\ alerts = [a \in SingleIds |-> NewRow]
    /\ unused = {}
    /\ corr_alerts = [k \in CorrIds |-> NewCorrRow]
    /\ pc = "start"
    /\ exc = ""
    /\ prev_quotes = EmptyDict
    /\ symbols = {}
    /\ quotes = EmptyDict
    /\ result_data = {}
    /\ triggered_ids = <<>>
    /\ notifications = <<>>
    /\ corr_result = {}
    /\ updates = <<>>
    /\ upd_i = 0
    /\ corr_notifications = <<>>
    /\ tasks = NoTasks
    /\ handed = [a \in SingleIds \cup CorrIds |-> 0]
    /\ empty_cur = FALSE
    /\ empty_prev = FALSE

\* notifier.py:103-107 and 110-136: either dispatcher is called with two
\* firings; the first subscriber's profile is arbitrary
InitNotify ==
    /\ WorkerIdle
    /\ lifespan = Serving
    /\ fetch = NoFetch
    /\ reminder = NoReminder
    /\ failed = NoFailure
    /\ peer = NoPeer
    /\ evalc = NoEval
    /\ \E kind \in {"single", "correlation"} : \E p \in AllProfiles :
          notif = [f \in Firings |->
                      NotifyStart(kind, IF f = "n1" THEN p ELSE BothLinked)]

NotifyStep ==
    \/ \E f \in Firings : NotifySummary(f)
    \/ \E f \in Firings : NotifyCorrelation(f)
    \/ \E f \in Firings : \E ch \in ChannelNames : NotifySendReturn(f, ch)

NextNotify == NotifyStep

SpecNotify == InitNotify /\ [][NextNotify]_vars

\* The event loop runs every gathered coroutine, and each external call ends.
FairNotify == SpecNotify /\ WF_vars(NotifyStep)

\* ------------------------------------------------ one evaluation, on its own
\* The body of the loop of check_alerts (alert_engine.py:119-149) for one row
\* read from the table, one quote and one snapshot.
\* The rows the creation paths can store: api/alerts.py:19-25 and 140-147
\* (pip_buffer > 0, zone_high > price for a zone alert), api/telegram.py:106-127
\* and api/whatsapp.py:91-112 (pip_buffer null unless the alert is a near
\* alert, whose pip_buffer is any number the subscriber typed, 0 included).
EvalRows ==
    {r \in [symbol : EvalSymbols, alert_type : {"touch", "cross", "near", "zone"},
            direction : {"above", "below", ""}, price : 1..MaxTick,
            pip_buffer : {None, <<0>>, <<1>>, <<2>>},
            zone_high : {None} \cup {<<h>> : h \in 1..MaxTick}] :
        /\ r.alert_type # "zone" => r.zone_high = None
        /\ r.alert_type = "zone" => (r.zone_high # None /\ r.zone_high[1] > r.price)
        /\ r.alert_type = "near" => r.pip_buffer # None
        /\ r.alert_type # "near" => r.pip_buffer \in {None, <<1>>}}

\* prev_quotes: empty, holding the row's symbol, or holding another symbol only
\* float(quote.get("price", 0)) of a quote as the provider may send it: a
\* positive price in ticks, 0 for a zero or absent price, a negative number
QuotedTicks == (-1)..MaxTick

EvalSnapshots(symbol) ==
    {EmptyDict}
    \cup {[s \in {symbol} |-> v] : v \in QuotedTicks}
    \cup {[s \in Symbols \ {symbol} |-> 1]}

EvalStart(row, price, prevq) ==
    [pc |-> "row", alert |-> row, price |-> price, snapshot |-> prevq,
     prev_price |-> None, pip |-> 0, triggered |-> FALSE]

\* alert_engine.py:125-127: a price of zero or less skips the row
EvalSkipRow ==
    /\ evalc.pc = "row"
    /\ evalc.price <= 0
    /\ evalc' = [evalc EXCEPT !.pc = "skipped"]
    /\ UNCHANGED <<store, worker, single_locals, corr_locals, tasks, history, peer,
                   notif, lifespan, fetch, reminder, failed>>

\* alert_engine.py:129-136: prev_price is looked up and _is_triggered is called
\* (which takes the pip size of the symbol, alert_engine.py:32)
EvalRow ==
    /\ evalc.pc = "row"
    /\ evalc.price > 0
    /\ LET pp == PrevPrice(evalc.snapshot, evalc.alert.symbol)
       IN  evalc' = [evalc EXCEPT !.prev_price = pp,
                                  !.pip = _pip_size(evalc.alert.symbol),
                                  !.triggered = _is_triggered(evalc.alert, evalc.price, pp),
                                  !.pc = "returned"]
    /\ UNCHANGED <<store, worker, single_locals, corr_locals, tasks, history, peer,
                   notif, lifespan, fetch, reminder, failed>>

InitEval ==
    /\ WorkerIdle
    /\ lifespan = Serving
    /\ fetch = NoFetch
    /\ reminder = NoReminder
    /\ failed = NoFailure
    /\ peer = NoPeer
    /\ notif = NoTasks
    /\ \E row \in EvalRows : \E price \in QuotedTicks :
          \E prevq \in EvalSnapshots(row.symbol) :
             evalc = EvalStart(row, price, prevq)

NextEval == EvalSkipRow \/ EvalRow

SpecEval == InitEval /\ [][NextEval]_vars

\* ------------------------------------ one correlation evaluation, on its own
\* The body of the loop of check_correlation_alerts (alert_engine.py:184-225)
\* for one row, one quote response and one snapshot.
CorrRows ==
    {r \in [symbol1 : Symbols, symbol2 : Symbols, zone_low : 1..MaxTick,
            zone_high : 1..MaxTick] : r.zone_low < r.zone_high}

TickDicts == UNION {[Q -> QuotedTicks] : Q \in SUBSET Symbols}

EvalCorrStart(row, q, prevq) ==
    [pc |-> "corr_row", alert |-> row, quotes |-> q, snapshot |-> prevq,
     triggered_by |-> None, triggered_price |-> None, updates |-> <<>>,
     notifications |-> <<>>]

\* alert_engine.py:190-221: the leg loop, then the append to updates and
\* notifications when a leg was recorded
EvalCorrRow ==
    /\ evalc.pc = "corr_row"
    /\ LET trig == CorrTrigger(evalc.alert, evalc.quotes, evalc.snapshot)
       IN  evalc' = IF trig = <<>>
                    THEN [evalc EXCEPT !.pc = "corr_returned"]
                    ELSE [evalc EXCEPT !.pc = "corr_returned",
                                       !.triggered_by = <<trig[1]>>,
                                       !.triggered_price = <<trig[2]>>,
                                       !.updates = <<trig[1]>>,
                                       !.notifications = <<[symbol |-> trig[1],
                                                            price |-> trig[2]]>>]
    /\ UNCHANGED <<store, worker, single_locals, corr_locals, tasks, history, peer,
                   notif, lifespan, fetch, reminder, failed>>

InitCorr ==
    /\ WorkerIdle
    /\ lifespan = Serving
    /\ fetch = NoFetch
    /\ reminder = NoReminder
    /\ failed = NoFailure
    /\ peer = NoPeer
    /\ notif = NoTasks
    /\ \E row \in CorrRows : \E q \in TickDicts : \E prevq \in TickDicts :
          evalc = EvalCorrStart(row, q, prevq)

NextCorr == EvalCorrRow

SpecCorr == InitCorr /\ [][NextCorr]_vars

\* One evaluation of one row of either kind: the loop body of check_alerts or
\* the one of check_correlation_alerts.
InitSanitise == InitEval \/ InitCorr

NextSanitise == NextEval \/ NextCorr

SpecSanitise == InitSanitise /\ [][NextSanitise]_vars

\* ------------------------------------------ a cycle after a failed claim
\* worker.py:69-70 as WorkerCatch; when the exception is that of the single
\* claim write, the cycle's fired alerts, quotes and snapshot are recorded
RetryCatch ==
    /\ pc = "raised"
    /\ pc' = "sleep"
    /\ result_data' = {}
    /\ triggered_ids' = <<>>
    /\ notifications' = <<>>
    /\ corr_result' = {}
    /\ updates' = <<>>
    /\ upd_i' = 0
    /\ corr_notifications' = <<>>
    /\ failed' = IF exc = "check_alerts.update"
                 THEN [cycle |-> "failed", ids |-> Range(triggered_ids),
                       quotes |-> quotes, prev |-> prev_quotes]
                 ELSE failed
    /\ UNCHANGED <<store, exc, prev_quotes, symbols, quotes, tasks, history, peer, notif,
                   evalc, lifespan, fetch, reminder>>

\* worker.py:72 and 55 as Sleep; the cycle that starts is the one after the
\* recorded failure, or the record is dropped
RetrySleep ==
    /\ pc = "sleep"
    /\ pc' = "start"
    /\ exc' = ""
    /\ symbols' = {}
    /\ quotes' = EmptyDict
    /\ empty_prev' = empty_cur
    /\ empty_cur' = FALSE
    /\ failed' = IF failed.cycle = "failed" THEN [failed EXCEPT !.cycle = "next"]
                 ELSE NoFailure
    /\ UNCHANGED <<store, prev_quotes, single_locals, corr_locals, tasks, handed, peer,
                   notif, evalc, lifespan, fetch, reminder>>

RetryWorkerStep ==
    \/ GetActiveSymbols
    \/ NoActiveSymbols
    \/ GetActiveSymbolsRaise
    \/ FetchBatchQuotes
    \/ CheckAlerts
    \/ CheckAlertsRaise
    \/ CheckAlertsReturn
    \/ ClaimAlerts
    \/ ClaimAlertsRaise
    \/ DispatchNotifications
    \/ DispatchReturn
    \/ CheckCorrelationAlerts
    \/ CheckCorrelationAlertsRaise
    \/ CheckCorrelationAlertsReturn
    \/ ClaimCorrelationAlert
    \/ ClaimCorrelationAlertRaise
    \/ DispatchCorrelationNotifications
    \/ DispatchCorrelationReturn
    \/ AdvanceSnapshot
    \/ RetryCatch
    \/ RetrySleep

\* The worker and its notifier coroutines alone: no owner changes a row
\* between the cycles.
NextRetry == RetryWorkerStep \/ NotifierStep

SpecRetry == Init /\ [][NextRetry]_vars

\* ------------------------------------------------- fetch_batch_quotes
\* fmp.py:12
MAX_CONCURRENT == 10

\* fmp.py:40-48: gather has wrapped one guarded_fetch per symbol of the list,
\* in list order; none has run yet, the semaphore is full
FetchStart(n) ==
    [pc |-> "gather", n |-> n,
     stage |-> [i \in 1..n |-> "waiting"],
     requests |-> [i \in 1..n |-> 0],
     result |-> {}]

\* the requests between client.get (fmp.py:18) and its return
InFlight == {i \in DOMAIN fetch.stage : fetch.stage[i] = "in_flight"}

\* Fault variant of GuardedFetchAcquire: no semaphore, every guarded_fetch
\* issues its request as soon as it runs.
GuardedFetchUnguarded(i) ==
    /\ fetch.pc = "gather"
    /\ fetch.stage[i] = "waiting"
    /\ \A j \in 1..(i - 1) : fetch.stage[j] # "waiting"
    /\ fetch' = [fetch EXCEPT !.stage[i] = "in_flight", !.requests[i] = @ + 1]
    /\ UNCHANGED <<store, worker, single_locals, corr_locals, tasks, history, peer,
                   notif, evalc, lifespan, reminder, failed>>

\* fmp.py:43-44 and 18: guarded_fetch i enters the semaphore and issues its
\* request. The tasks run and the semaphore wakes its waiters in list order,
\* and the semaphore admits one only while fewer than MAX_CONCURRENT hold it.
GuardedFetchAcquire(i) ==
    /\ fetch.pc = "gather"
    /\ fetch.stage[i] = "waiting"
    /\ \A j \in 1..(i - 1) : fetch.stage[j] # "waiting"
    /\ Cardinality(InFlight) < MAX_CONCURRENT
    /\ fetch' = [fetch EXCEPT !.stage[i] = "in_flight", !.requests[i] = @ + 1]
    /\ UNCHANGED <<store, worker, single_locals, corr_locals, tasks, history, peer,
                   notif, evalc, lifespan, reminder, failed>>

\* fmp.py:18-28 and 43: the request of guarded_fetch i ends (a quote, an
\* empty body or an exception, which _fetch_single catches) and the semaphore
\* is released
FetchSingleReturn(i) ==
    /\ fetch.pc = "gather"
    /\ fetch.stage[i] = "in_flight"
    /\ fetch' = [fetch EXCEPT !.stage[i] = "done"]
    /\ UNCHANGED <<store, worker, single_locals, corr_locals, tasks, history, peer,
                   notif, evalc, lifespan, reminder, failed>>

\* fmp.py:47-51: every guarded_fetch has returned; the dict keeps the symbols
\* whose request returned data (which ones is the provider's choice)
FetchGatherReturn ==
    /\ fetch.pc = "gather"
    /\ \A i \in DOMAIN fetch.stage : fetch.stage[i] = "done"
    /\ \E withData \in SUBSET (1..fetch.n) :
          fetch' = [fetch EXCEPT !.pc = "returned", !.result = withData]
    /\ UNCHANGED <<store, worker, single_locals, corr_locals, tasks, history, peer,
                   notif, evalc, lifespan, reminder, failed>>

\* One call of fetch_batch_quotes with a non-empty list of distinct symbols
\* (worker.py:46, 59-60).
InitFetch ==
    /\ WorkerIdle
    /\ lifespan = Serving
    /\ peer = NoPeer
    /\ notif = NoTasks
    /\ evalc = NoEval
    /\ reminder = NoReminder
    /\ failed = NoFailure
    /\ \E n \in 1..MaxSymbols : fetch = FetchStart(n)

FetchStep ==
    \/ \E i \in 1..MaxSymbols : i \in DOMAIN fetch.stage /\ GuardedFetchAcquire(i)
    \/ \E i \in 1..MaxSymbols : i \in DOMAIN fetch.stage /\ FetchSingleReturn(i)
    \/ FetchGatherReturn

NextFetch == FetchStep

SpecFetch == InitFetch /\ [][NextFetch]_vars

\* The event loop runs every task that can run, and every request ends (the
\* client has a timeout of 10 s, fmp.py:46).
FairFetch == SpecFetch /\ WF_vars(FetchStep)

\* ------------------------------------------------------ reminder worker
ReminderIds == {"r1", "r2"}
ReminderOrder == <<"r1", "r2">>

\* reminder_worker.py:16-20, the keys of SESSION_TIMES
SESSION_TIMES == {"asian", "london", "new_york"}

\* The columns the worker reads and never writes: is_recurring, session_type
\* ("" for null; api/telegram.py stores the parser's value as it comes) and
\* the owner's telegram_id ("" for null; api/profile.py:44 can clear it).
ReminderCols ==
    [is_recurring : BOOLEAN, session_type : {"", "london", "sydney"},
     telegram_id : {"", "tg"}]

\* remind_at is "past" when it is at or before now, "tomorrow" after a
\* rescheduling
DueRow == [sent |-> FALSE, remind_at |-> "past"]
RescheduledRow == [sent |-> FALSE, remind_at |-> "tomorrow"]

\* `.lte("remind_at", now_iso).eq("sent", False)`
DueUnsent(row) == row.remind_at = "past" /\ row.sent = FALSE

\* `r.get("is_recurring") and r.get("session_type")`
RecurringSession(c) == c.is_recurring /\ c.session_type # ""

ReminderFrame ==
    UNCHANGED <<store, worker, single_locals, corr_locals, tasks, history, peer, notif,
                evalc, lifespan, fetch, failed>>

\* reminder_worker.py:49-64: the read of the due, unsent reminders
ProcessDueReminders ==
    /\ reminder.pc = "start"
    /\ LET rows == OrderedSeq(ReminderOrder,
                              {r \in ReminderIds : DueUnsent(reminder.table[r])})
       IN  reminder' = [reminder EXCEPT !.rows = rows,
                                        !.i = 1,
                                        !.attempts = [r \in ReminderIds |-> 0],
                                        !.exc = "",
                                        !.pc = IF rows = <<>> THEN "sleep" ELSE "fire"]
    /\ ReminderFrame

\* the read raises
ProcessDueRemindersRaise ==
    /\ reminder.pc = "start"
    /\ reminder' = [reminder EXCEPT !.rows = <<>>,
                                     !.attempts = [r \in ReminderIds |-> 0],
                                     !.exc = "select", !.pc = "raised"]
    /\ ReminderFrame

\* reminder_worker.py:67-69 and 34-45: one send when the owner has a
\* telegram_id; an exception of the send is logged
FireReminder ==
    /\ reminder.pc = "fire"
    /\ LET r == reminder.rows[reminder.i]
       IN  reminder' = [reminder EXCEPT
                           !.attempts[r] = IF reminder.cols[r].telegram_id # ""
                                           THEN @ + 1 ELSE @,
                           !.pc = "write"]
    /\ ReminderFrame

\* the position after the row at index i has been written
NextRow(rem) ==
    IF rem.i < Len(rem.rows) THEN [rem EXCEPT !.i = @ + 1, !.pc = "fire"]
    ELSE [rem EXCEPT !.pc = "sleep"]

\* Python's SESSION_TIMES[key]: a KeyError for a key that is not in the dict
SessionKnown(session_type) == session_type \in SESSION_TIMES

\* reminder_worker.py:71-80: a recurring session reminder is moved to the
\* session time of the next day, any other is marked sent; the lookup of an
\* unknown session_type raises KeyError before any write
UpdateReminder ==
    /\ reminder.pc = "write"
    /\ LET r == reminder.rows[reminder.i]
           c == reminder.cols[r]
       IN  reminder' =
              IF RecurringSession(c)
              THEN IF SessionKnown(c.session_type)
                   THEN NextRow([reminder EXCEPT !.table[r] = RescheduledRow])
                   ELSE [reminder EXCEPT !.exc = "KeyError", !.pc = "raised"]
              ELSE NextRow([reminder EXCEPT !.table[r].sent = TRUE])
    /\ ReminderFrame

\* the update raises, the row is unchanged
UpdateReminderRaise ==
    /\ reminder.pc = "write"
    /\ LET c == reminder.cols[reminder.rows[reminder.i]]
       IN  RecurringSession(c) => SessionKnown(c.session_type)
    /\ reminder' = [reminder EXCEPT !.exc = "update", !.pc = "raised"]
    /\ ReminderFrame

\* reminder_worker.py:88-89
ReminderCatch ==
    /\ reminder.pc = "raised"
    /\ reminder' = [reminder EXCEPT !.pc = "sleep"]
    /\ ReminderFrame

\* reminder_worker.py:90 and 85-87: the next pass
ReminderSleep ==
    /\ reminder.pc = "sleep"
    /\ reminder.passes < MaxPasses
    /\ reminder' = [reminder EXCEPT !.pc = "start", !.passes = @ + 1]
    /\ ReminderFrame

\* time passes: the session time of a rescheduled reminder has come
RemindAtPasses(r) ==
    /\ reminder.table[r].remind_at = "tomorrow"
    /\ reminder' = [reminder EXCEPT !.table[r].remind_at = "past"]
    /\ ReminderFrame

\* run_reminder_worker starts with two unsent reminders, r1 due
InitReminder ==
    /\ WorkerIdle
    /\ lifespan = Serving
    /\ fetch = NoFetch
    /\ failed = NoFailure
    /\ peer = NoPeer
    /\ notif = NoTasks
    /\ evalc = NoEval
    /\ \E cols \in [ReminderIds -> ReminderCols] : \E row2 \in {DueRow, RescheduledRow} :
          reminder = [pc |-> "start", cols |-> cols,
                      table |-> [r \in ReminderIds |-> IF r = "r1" THEN DueRow ELSE row2],
                      rows |-> <<>>, i |-> 1,
                      attempts |-> [r \in ReminderIds |-> 0],
                      exc |-> "", passes |-> 1]

ReminderStep ==
    \/ ProcessDueReminders
    \/ ProcessDueRemindersRaise
    \/ FireReminder
    \/ UpdateReminder
    \/ UpdateReminderRaise
    \/ ReminderCatch
    \/ ReminderSleep

NextReminder == ReminderStep \/ \E r \in ReminderIds : RemindAtPasses(r)

SpecReminder == InitReminder /\ [][NextReminder]_vars

\* ----------------------------------------------------------------- claims
IsClaimed(row) == row.is_active = FALSE /\ row.triggered_at # None
IsOpen(row) == row.is_active = TRUE /\ row.triggered_at = None
UpdateIds(us) == {us[i][1] : i \in DOMAIN us}

\* C1: with a single evaluator, a row that is inactive or carries a trigger
\* timestamp is never read for evaluation and never written by a claim, and no
\* alert is handed to the notifier a second time.
C1_NeverAgain ==
    [][/\ \A a \in SingleIds :
             /\ (result_data' # result_data /\ a \in result_data')
                    => (a \in DOMAIN alerts /\ IsOpen(alerts[a]))
             /\ (a \in DOMAIN alerts /\ a \in DOMAIN alerts' /\ alerts'[a] # alerts[a])
                    => IsOpen(alerts[a])
             /\ handed'[a] # handed[a] => (handed[a] = 0 /\ handed'[a] = 1)
       /\ \A k \in CorrIds :
             /\ (corr_result' # corr_result /\ k \in corr_result')
                    => IsOpen(corr_alerts[k])
             /\ corr_alerts'[k] # corr_alerts[k] => IsOpen(corr_alerts[k])
             /\ handed'[k] # handed[k] => (handed[k] = 0 /\ handed'[k] = 1)
      ]_vars

\* A later evaluation has read rows on quoted symbols and left out an alert the
\* worker had already claimed and handed over, although its symbol is quoted.
C1_Witness ==
    /\ pc = "claim"
    /\ result_data # {}
    /\ \E a \in DOMAIN alerts :
          /\ handed[a] = 1
          /\ IsClaimed(alerts[a])
          /\ AlertCols[a].symbol \in DOMAIN quotes
          /\ quotes[AlertCols[a].symbol] > 0
          /\ a \notin result_data

\* C2: every firing whose summary request or channel send has started is
\* already claimed in the store (inactive, with a trigger timestamp).
C2_ClaimBeforeNotify ==
    \A a \in DOMAIN tasks :
        /\ (a \in SingleIds /\ a \in DOMAIN alerts) => IsClaimed(alerts[a])
        /\ a \in CorrIds => IsClaimed(corr_alerts[a])

C2_Witness ==
    /\ \E a \in DOMAIN tasks :
          a \in SingleIds /\ a \in DOMAIN alerts /\ tasks[a].stage = "summary"
    /\ \E a \in DOMAIN tasks : a \in SingleIds /\ tasks[a].stage = "send"

\* C3: when the claim write of a batch raised, the cycle ends without any
\* summary request or channel send, and no firing of that batch has been
\* handed to the notifier.
C3_NoNotifyAfterClaimFailure ==
    /\ exc = "check_alerts.update" =>
          /\ tasks = NoTasks
          /\ pc \in {"raised", "sleep"}
          /\ \A a \in Range(triggered_ids) : handed[a] = 0
    /\ exc = "check_correlation_alerts.update" =>
          /\ tasks = NoTasks
          /\ pc \in {"raised", "sleep"}
          /\ \A k \in CorrIdsOf(corr_notifications) : handed[k] = 0

C3_Witness ==
    /\ pc = "raised"
    /\ exc = "check_alerts.update"
    /\ Len(triggered_ids) = 2

\* C4: a failure of the claim step never leaves some of the cycle's fired
\* alerts claimed and others still active.
C4_ClaimIsAtomic ==
    (pc = "raised" /\ exc \in {"check_alerts.update", "check_correlation_alerts.update"})
        => /\ ~ \E a, b \in Range(triggered_ids) \cap DOMAIN alerts :
                    IsClaimed(alerts[a]) /\ IsOpen(alerts[b])
           /\ ~ \E k, l \in UpdateIds(updates) :
                    IsClaimed(corr_alerts[k]) /\ IsOpen(corr_alerts[l])

\* C5: a claim write changes only rows of this cycle's fired alerts, each to
\* inactive with a trigger timestamp, and when the claim step has returned
\* every fired row is changed so.
C5_ClaimExactlyFired ==
    [][/\ \A a \in DOMAIN alerts \cap DOMAIN alerts' :
             alerts'[a] # alerts[a] =>
                 /\ a \in Range(triggered_ids)
                 /\ alerts'[a].is_active = FALSE
                 /\ alerts'[a].triggered_at # None
       /\ \A k \in CorrIds :
             corr_alerts'[k] # corr_alerts[k] =>
                 /\ k \in UpdateIds(updates)
                 /\ corr_alerts'[k].is_active = FALSE
                 /\ corr_alerts'[k].triggered_at # None
       /\ (pc = "claim" /\ pc' = "dispatch") =>
             \A a \in Range(triggered_ids) \cap DOMAIN alerts' : IsClaimed(alerts'[a])
       /\ (pc = "claim_corr" /\ pc' = "notify_corr") =>
             \A k \in UpdateIds(updates) : IsClaimed(corr_alerts'[k])
      ]_vars

\* The claim returned for one fired alert while another row, read in the same
\* cycle and not fired, is still open.
C5_Witness ==
    /\ pc = "dispatch"
    /\ \E a \in Range(triggered_ids) : a \in DOMAIN alerts /\ IsClaimed(alerts[a])
    /\ \E b \in result_data \ Range(triggered_ids) : b \in DOMAIN alerts /\ IsOpen(alerts[b])

\* C6 (for cycles that end without an exception): after a cycle whose interest
\* set was not empty the snapshot holds exactly the symbols of that cycle's
\* quote response.
C6_SnapshotIsThisCyclesQuotes ==
    (pc = "sleep" /\ exc = "" /\ symbols # {}) => DOMAIN prev_quotes = DOMAIN quotes

\* C7: a cycle with an empty interest set fetches and evaluates nothing and
\* clears the snapshot; through the evaluations of the cycle after it the
\* snapshot is empty, and a cross/above alert evaluated there fires exactly
\* when the price has reached its target.
C7_EmptyInterestResets ==
    /\ empty_cur =>
          /\ pc = "sleep"
          /\ prev_quotes = EmptyDict
          /\ quotes = EmptyDict
          /\ result_data = {} /\ corr_result = {}
          /\ tasks = NoTasks
    /\ (empty_prev /\ pc # "sleep") => prev_quotes = EmptyDict
    /\ (empty_prev /\ pc = "claim") =>
          \A a \in result_data :
              (AlertCols[a].alert_type = "cross" /\ AlertCols[a].direction = "above") =>
                  (a \in Range(triggered_ids)
                      <=> quotes[AlertCols[a].symbol] >= AlertCols[a].price)

\* After an empty cycle a cross alert is evaluated and fires by the fallback.
C7_Witness ==
    /\ empty_prev
    /\ pc = "claim"
    /\ \E a \in Range(triggered_ids) : AlertCols[a].alert_type = "cross"

\* C8: whatever raised in a cycle, the loop goes on: a next cycle always
\* starts again.
C8_LoopContinues == []<>(pc = "start")

\* A cycle ended by an exception of the correlation claim has reached the sleep.
C8_Witness == pc = "sleep" /\ exc = "check_correlation_alerts.update"

\* C9: summary requests and channel sends are in flight only while the worker
\* waits in the dispatcher; none is left when the cycle sleeps or the next
\* one starts.
C9_NotifyInsideCycle ==
    \A a \in DOMAIN tasks :
        /\ a \in SingleIds => pc = "notify"
        /\ a \in CorrIds => pc = "notify_corr"

\* A cycle that dispatched a firing on two channels has reached its sleep.
C9_Witness ==
    /\ pc = "sleep"
    /\ exc = ""
    /\ handed["a2"] = 1
    /\ "a2" \in DOMAIN alerts
    /\ quotes # EmptyDict

\* C10: the interest set a cycle computes is exactly the symbols of the open
\* single-symbol alerts and both legs of the open correlation alerts.
C10_InterestSet ==
    [][(pc = "start" /\ pc' \in {"fetch", "sleep"}) =>
          symbols' = {s \in Symbols :
                         \/ \E a \in DOMAIN alerts :
                               IsOpen(alerts[a]) /\ AlertCols[a].symbol = s
                         \/ \E k \in DOMAIN corr_alerts :
                               /\ IsOpen(corr_alerts[k])
                               /\ s \in {CorrCols[k].symbol1, CorrCols[k].symbol2}}
      ]_vars

\* An interest set without USDJPY although an inactive alert and an
\* already-triggered correlation alert refer to it.
C10_Witness ==
    /\ pc = "fetch"
    /\ symbols = {EURUSD}
    /\ "a2" \in DOMAIN alerts /\ ~ IsOpen(alerts["a2"])
    /\ \E k \in CorrIds : IsClaimed(corr_alerts[k])

\* The symbols requested in this cycle that the quote response omits.
Omitted == IF pc \in {"start", "fetch"} THEN {} ELSE symbols \ DOMAIN quotes

\* C11: when the quote response omits a requested symbol, the fetch does not
\* raise and the cycle goes on with the symbols that were priced; the rows read
\* for evaluation are exactly the open alerts on priced symbols and those whose
\* condition holds are fired; an alert on an omitted symbol is not read, not
\* fired, not written and not handed to the notifier in that cycle, and a
\* correlation alert is only ever claimed through a priced leg.
C11_OmittedSymbolSkipped ==
    [][/\ pc = "fetch" =>
             /\ pc' # "raised" /\ exc' = ""
             /\ quotes' # EmptyDict => pc' = "check_alerts"
       /\ (Omitted # {} /\ pc = "check_alerts" /\ pc' = "claim") =>
             /\ result_data' = {a \in DOMAIN alerts :
                                   IsOpen(alerts[a]) /\ AlertCols[a].symbol \in DOMAIN quotes}
             /\ Range(triggered_ids') =
                    {a \in result_data' :
                        /\ quotes[AlertCols[a].symbol] > 0
                        /\ _is_triggered(AlertCols[a], quotes[AlertCols[a].symbol],
                                         PrevPrice(prev_quotes, AlertCols[a].symbol))}
       /\ \A a \in SingleIds :
             AlertCols[a].symbol \in Omitted =>
                /\ a \notin result_data'
                /\ a \notin Range(triggered_ids')
                /\ (a \in DOMAIN alerts /\ a \in DOMAIN alerts') => alerts'[a] = alerts[a]
                /\ handed'[a] = handed[a]
       /\ \A k \in CorrIds :
             (Omitted # {} /\ corr_alerts'[k] # corr_alerts[k]) =>
                /\ corr_alerts'[k].triggered_by # None
                /\ corr_alerts'[k].triggered_by[1] \in DOMAIN quotes
      ]_vars

\* One symbol is omitted while an alert is open on it, and an alert on a priced
\* symbol has fired in the same cycle.
C11_Witness ==
    /\ pc = "claim"
    /\ triggered_ids # <<>>
    /\ \E a \in DOMAIN alerts : IsOpen(alerts[a]) /\ AlertCols[a].symbol \in Omitted

\* C12: with two evaluator instances on one store, the claim write names its
\* rows by id alone and its outcome is not consulted: the rows an instance hands
\* to the notifier are the rows it found fired at its read, also when the other
\* instance has claimed them in between.
C12_WriteOutcomeNotConsulted ==
    [][/\ (peer.pc = "claim" /\ peer'.pc = "dispatch") =>
             /\ peer'.triggered_ids = peer.triggered_ids
             /\ \A a \in Range(peer.triggered_ids) \cap DOMAIN alerts :
                    alerts'[a] = ClaimedRow(alerts[a], Now)
       /\ (peer.pc = "dispatch" /\ peer'.pc = "returned") =>
             \A a \in Range(peer.triggered_ids) : peer'.handed[a] = peer.handed[a] + 1
       /\ (pc = "claim" /\ pc' = "dispatch") =>
             /\ triggered_ids' = triggered_ids
             /\ \A a \in Range(triggered_ids) \cap DOMAIN alerts :
                    alerts'[a] = ClaimedRow(alerts[a], Now)
       /\ (pc = "dispatch" /\ pc' = "notify") => DOMAIN tasks' = Range(triggered_ids)
      ]_vars

\* Both instances have read the same open alert, written its claim and handed
\* it to the notifier.
C12_Witness ==
    /\ peer.pc = "returned"
    /\ \E a \in SingleIds : handed[a] = 1 /\ peer.handed[a] = 1

\* The senders a coroutine has invoked: gathered and running, or ended.
Invoked(n) == {ch \in ChannelNames : ch \in n.pending \/ n.sent[ch] > 0}
PastStart(n) == n.stage \in {"send", "done"}
PaidWithNumber(p) == p.tier \in {"pro", "elite"} /\ p.whatsapp # ""

\* C13: for a single-symbol firing the senders invoked depend on the profile
\* only: Telegram iff a telegram_id is linked; WhatsApp iff the tier is pro or
\* elite and a number is linked; email iff no telegram_id is linked, the
\* subscriber is not a paid one with a number, and an email is on file.  Email
\* never goes with Telegram or WhatsApp, and without an eligible channel nothing
\* is sent and no error leaves the coroutine.
C13_RoutingPolicy ==
    \A f \in DOMAIN notif :
       (notif[f].kind = "single" /\ PastStart(notif[f])) =>
          LET p == notif[f].profile
              inv == Invoked(notif[f])
          IN  /\ "telegram" \in inv <=> p.telegram_id # ""
              /\ "whatsapp" \in inv <=> PaidWithNumber(p)
              /\ "email" \in inv <=>
                     (p.telegram_id = "" /\ ~PaidWithNumber(p) /\ p.email # "")
              /\ "email" \in inv => inv = {"email"}
              /\ ~notif[f].error
              /\ (p.telegram_id = "" /\ ~PaidWithNumber(p) /\ p.email = "") =>
                     (inv = {} /\ notif[f].stage = "done")

\* A paid subscriber without telegram_id, with a number and an email on file,
\* was sent the firing on WhatsApp alone.
C13_Witness ==
    \E f \in DOMAIN notif :
       /\ notif[f].kind = "single"
       /\ notif[f].stage = "done"
       /\ notif[f].profile = [tier |-> "elite", telegram_id |-> "", whatsapp |-> "wa",
                               email |-> "em"]
       /\ notif[f].sent = [ch \in ChannelNames |-> IF ch = "whatsapp" THEN 1 ELSE 0]

\* C14: a claimed correlation firing is routed like a single-symbol one: a pro
\* or elite subscriber with a number linked gets a WhatsApp send, and a free
\* subscriber without telegram_id and with an email on file gets an email send.
C14_CorrelationRouted ==
    \A f \in DOMAIN notif :
       (notif[f].kind = "correlation" /\ notif[f].stage = "done") =>
          LET p == notif[f].profile
          IN  /\ PaidWithNumber(p) => notif[f].sent["whatsapp"] >= 1
              /\ (p.telegram_id = "" /\ p.tier = "free" /\ p.email # "") =>
                     notif[f].sent["email"] >= 1

Eligible(n) == IF n.kind = "single" THEN Channels(n.profile) ELSE CorrChannels(n.profile)

\* C15: the sends of a firing are isolated from each other and from the other
\* firings of the call: whatever a send returns or raises, no eligible channel
\* of any firing is dropped and no exception leaves a coroutine, and in every
\* run each eligible channel of each firing ends up attempted.
C15_SendsIsolated ==
    /\ [](\A f \in DOMAIN notif :
             /\ ~notif[f].error
             /\ PastStart(notif[f]) =>
                   \A ch \in Eligible(notif[f]) :
                      ch \in notif[f].pending \/ notif[f].sent[ch] >= 1)
    /\ <>(\A f \in DOMAIN notif :
             /\ notif[f].stage = "done"
             /\ \A ch \in Eligible(notif[f]) : notif[f].sent[ch] >= 1)

\* The Telegram send of the pro subscriber with both channels linked raised,
\* the WhatsApp send of the same firing succeeded, and the other firing of the
\* call was sent too.
C15_Witness ==
    /\ DOMAIN notif = Firings
    /\ notif["n2"].kind = "single"
    /\ notif["n2"].stage = "done"
    /\ notif["n2"].result["telegram"] = "raised"
    /\ notif["n2"].result["whatsapp"] = "ok"
    /\ notif["n1"].stage = "done"
    /\ notif["n1"].result["telegram"] = "failed"
    /\ notif["n1"].result["whatsapp"] = "ok"

\* C16: the notifier invokes a channel sender at most once per firing; a send
\* that returned False or raised is not scheduled again, and a channel that is
\* not eligible is never invoked.
C16_SentExactlyOnce ==
    \A f \in DOMAIN notif : \A ch \in ChannelNames :
       /\ notif[f].sent[ch] <= 1
       /\ notif[f].result[ch] # "none" => (ch \notin notif[f].pending /\ notif[f].sent[ch] = 1)
       /\ notif[f].sent[ch] = 1 => ch \in Eligible(notif[f])
       /\ notif[f].stage = "done" => notif[f].pending = {}

\* A coroutine has ended although one of its sends failed.
C16_Witness ==
    \E f \in DOMAIN notif : \E ch \in ChannelNames :
       /\ notif[f].kind = "single"
       /\ notif[f].stage = "done"
       /\ notif[f].result[ch] = "failed"
       /\ notif[f].sent[ch] = 1

\* C17: when the summary call raises, times out or returns an empty result, the
\* message carries the fallback sentence, and the channels are those of a
\* firing whose summary call succeeded.
C17_FallbackOnEveryFailure ==
    \A f \in DOMAIN notif :
       (notif[f].kind = "single" /\ PastStart(notif[f])
            /\ notif[f].outcome \in {"raise", "timeout", "empty"}) =>
          /\ notif[f].ai_summary = "fallback"
          /\ Invoked(notif[f]) = Channels(notif[f].profile)

\* The row under evaluation has gone through _is_triggered.
Evaluated(kind, direction) ==
    /\ evalc.pc = "returned"
    /\ evalc.alert.alert_type = kind
    /\ evalc.alert.direction = direction

\* C18: a touch alert with direction above fires iff price >= target, or a
\* previous price exists with previous < target and price > target; with
\* direction below iff price <= target, or a previous price exists with
\* previous > target and price < target.
C18_TouchWithDirection ==
    LET t == evalc.alert.price
        p == evalc.price
        pp == evalc.prev_price
    IN  /\ Evaluated("touch", "above") =>
              (evalc.triggered <=> (p >= t \/ (pp # None /\ pp[1] < t /\ p > t)))
        /\ Evaluated("touch", "below") =>
              (evalc.triggered <=> (p <= t \/ (pp # None /\ pp[1] > t /\ p < t)))

\* A touch alert with direction above has fired on a price equal to its target.
C18_Witness ==
    /\ Evaluated("touch", "above")
    /\ evalc.price = evalc.alert.price
    /\ evalc.prev_price # None
    /\ evalc.triggered

\* C19: a cross alert with a known previous price fires, for direction below,
\* iff previous > target >= price, and for direction above iff
\* previous < target <= price; a price at or beyond the target does not fire
\* it when the previous price was already at or beyond the target.
C19_CrossWithPrevious ==
    LET t == evalc.alert.price
        p == evalc.price
        pp == evalc.prev_price
    IN  /\ (Evaluated("cross", "below") /\ pp # None) =>
              /\ evalc.triggered <=> (pp[1] > t /\ t >= p)
              /\ (p <= t /\ pp[1] <= t) => ~evalc.triggered
        /\ (Evaluated("cross", "above") /\ pp # None) =>
              /\ evalc.triggered <=> (pp[1] < t /\ t <= p)
              /\ (p >= t /\ pp[1] >= t) => ~evalc.triggered

\* A cross alert with direction below has not fired although the price is at
\* or below its target, since the previous price was so already.
C19_Witness ==
    /\ Evaluated("cross", "below")
    /\ evalc.prev_price # None
    /\ evalc.price <= evalc.alert.price
    /\ evalc.prev_price[1] <= evalc.alert.price
    /\ ~evalc.triggered

\* The snapshot holds no entry for the symbol of the row under evaluation.
NoSnapshotEntry == evalc.snapshot = EmptyDict \/ evalc.alert.symbol \notin DOMAIN evalc.snapshot

\* C20: a cross alert whose symbol has no previous price in the cycle (empty
\* snapshot, or the symbol is missing from it) fires iff price >= target for
\* direction above and iff price <= target for direction below.
C20_CrossWithoutPrevious ==
    /\ (Evaluated("cross", "above") /\ NoSnapshotEntry) =>
          (evalc.triggered <=> evalc.price >= evalc.alert.price)
    /\ (Evaluated("cross", "below") /\ NoSnapshotEntry) =>
          (evalc.triggered <=> evalc.price <= evalc.alert.price)

\* A cross alert with direction above has fired from a snapshot that holds
\* another symbol only.
C20_Witness ==
    /\ Evaluated("cross", "above")
    /\ evalc.snapshot # EmptyDict
    /\ evalc.alert.symbol \notin DOMAIN evalc.snapshot
    /\ evalc.triggered

\* C21: a cross alert without a direction does not fire, whatever the price
\* and the previous price.
C21_CrossWithoutDirection ==
    Evaluated("cross", "") => ~evalc.triggered

\* A cross alert without a direction has not fired although the price moved
\* from below its target to above it.
C21_Witness ==
    /\ Evaluated("cross", "")
    /\ evalc.prev_price # None
    /\ evalc.prev_price[1] < evalc.alert.price
    /\ evalc.alert.price < evalc.price
    /\ ~evalc.triggered

\* C22: a near alert fires iff |price - target| <= pip_buffer * pip_size(symbol),
\* for every stored pip_buffer value and every previous price or none.
C22_NearWithinStoredBuffer ==
    (evalc.pc = "returned" /\ evalc.alert.alert_type = "near") =>
       (evalc.triggered <=>
           Abs(evalc.price - evalc.alert.price)
              <= evalc.alert.pip_buffer[1] * _pip_size(evalc.alert.symbol))

\* previous and current price lie on opposite sides of the bound b
OppositeSides(pp, p, b) == pp # None /\ ((pp[1] < b /\ b < p) \/ (pp[1] > b /\ b > p))

C24_TouchWithoutDirection ==
    Evaluated("touch", "") =>
       LET t == evalc.alert.price
           p == evalc.price
           pp == evalc.prev_price
           pips == IF evalc.alert.pip_buffer = None THEN 5 ELSE evalc.alert.pip_buffer[1]
       IN  evalc.triggered <=>
              \/ Abs(p - t) <= pips * _pip_size(evalc.alert.symbol)
              \/ (pp # None /\ ((pp[1] < t /\ t <= p) \/ (pp[1] > t /\ t >= p)))

\* A touch alert without a direction has fired outside its buffer, on a price
\* that came from the other side of the target.
C24_Witness ==
    /\ Evaluated("touch", "")
    /\ evalc.alert.pip_buffer = <<1>>
    /\ evalc.prev_price # None
    /\ evalc.prev_price[1] < evalc.alert.price
    /\ evalc.price - evalc.alert.price > _pip_size(evalc.alert.symbol)
    /\ evalc.triggered

\* the last three characters of the symbol are the quote currency JPY
JpyQuoted(symbol) == Len(symbol) >= 3 /\ SubSeq(symbol, Len(symbol) - 2, Len(symbol)) = <<"J", "P", "Y">>
LargeDenomination(symbol) ==
    \E c \in {<<"B", "T", "C">>, <<"E", "T", "H">>, <<"X", "A", "U">>, <<"G", "O", "L", "D">>} :
       Contains(symbol, c)

\* C26: the pip size is 0.01 (100 ticks) for a JPY-quoted symbol and for a BTC,
\* ETH or XAU/gold symbol, and 0.0001 (1 tick) for every other symbol.
C26_PipSize ==
    evalc.pc = "returned" =>
       evalc.pip = IF JpyQuoted(evalc.alert.symbol) \/ LargeDenomination(evalc.alert.symbol)
                   THEN 100 ELSE 1

\* The leg sym of the row under evaluation is priced and its price is in the
\* zone, or came into or over the zone from a previous price outside it.
LegInZoneOrCrossed(sym) ==
    /\ sym \in DOMAIN evalc.quotes
    /\ evalc.quotes[sym] > 0
    /\ LET p == evalc.quotes[sym]
           low == evalc.alert.zone_low
           high == evalc.alert.zone_high
           known == sym \in DOMAIN evalc.snapshot /\ evalc.snapshot[sym] # 0
       IN  \/ (low <= p /\ p <= high)
           \/ (known /\ evalc.snapshot[sym] < low /\ low <= p)
           \/ (known /\ evalc.snapshot[sym] > high /\ high >= p)

RowNotRearmed(old, new) ==
    /\ new # old => (new.is_active = FALSE /\ new.triggered_at # None)
    /\ old.is_active = FALSE => new.is_active = FALSE
    /\ old.triggered_at # None => new.triggered_at # None

\* C27: the core never re-arms an alert: every row it has written is inactive
\* and carries a trigger timestamp, and no step turns an inactive row active,
\* clears a trigger timestamp, or writes a row in any other way.
C27_NeverRearmed ==
    /\ [](/\ \A a \in DOMAIN alerts :
                alerts[a].triggered_at = Now => alerts[a].is_active = FALSE
          /\ \A k \in DOMAIN corr_alerts :
                corr_alerts[k].triggered_at = Now => corr_alerts[k].is_active = FALSE)
    /\ [][/\ \A a \in DOMAIN alerts \cap DOMAIN alerts' :
                RowNotRearmed(alerts[a], alerts'[a])
          /\ \A k \in DOMAIN corr_alerts \cap DOMAIN corr_alerts' :
                RowNotRearmed(corr_alerts[k], corr_alerts'[k])
         ]_vars

\* The core has written an alert row and a correlation alert row, and a later
\* cycle has started.
C27_Witness ==
    /\ pc = "check_alerts"
    /\ \E a \in DOMAIN alerts : alerts[a].triggered_at = Now
    /\ \E k \in DOMAIN corr_alerts : corr_alerts[k].triggered_at = Now

\* The positions of run_worker inside check_alerts and
\* check_correlation_alerts, their claim writes and their dispatches included.
InEvaluation ==
    pc \in {"check_alerts", "claim", "dispatch", "notify", "check_corr", "claim_corr",
            "notify_corr"}

\* C29: evaluation, claiming and notification leave the snapshot as it is: no
\* step taken inside check_alerts or check_correlation_alerts, and no step of
\* a notifier coroutine, changes prev_quotes, so the correlation evaluation
\* reads the previous prices the single-symbol evaluation read.
C29_SnapshotFrame ==
    [][(InEvaluation \/ tasks # NoTasks) => prev_quotes' = prev_quotes]_vars

\* The correlation evaluation of a cycle has fired an alert from a snapshot
\* whose price differs from the current quote, after the single-symbol
\* evaluation of the same cycle.
C29_Witness ==
    /\ pc = "claim_corr"
    /\ updates # <<>>
    /\ \E s \in DOMAIN quotes \cap DOMAIN prev_quotes : quotes[s] # prev_quotes[s]

\* C28: once lifespan has cancelled the worker task, run_worker has ended
\* with no coroutine of a gather left, whichever await the cancellation hit,
\* and from then on the worker takes no step: no cycle starts, nothing is
\* handed to the notifier, and the snapshot stays as it was.
C28_CancellationEndsLoop ==
    /\ [](lifespan.phase # "serving" => (pc = "cancelled" /\ tasks = NoTasks))
    /\ [][lifespan.phase # "serving" =>
            (pc' = "cancelled" /\ tasks' = NoTasks /\ handed' = handed
             /\ prev_quotes' = prev_quotes /\ lifespan'.phase # "serving")]_vars

\* The worker was cancelled inside the try block while its notifier gather
\* was pending for a claimed alert, and lifespan's await has returned.
C28_Witness ==
    /\ lifespan.phase = "stopped"
    /\ lifespan.at = "notify"
    /\ pc = "cancelled"
    /\ \E a \in DOMAIN alerts : IsClaimed(alerts[a]) /\ handed[a] > 0

C31_BoundedConcurrency ==
    /\ [](Cardinality(InFlight) <= MAX_CONCURRENT)
    /\ [](\A i \in DOMAIN fetch.requests : fetch.requests[i] <= 1)
    /\ <>(fetch.pc = "returned" /\ \A i \in DOMAIN fetch.requests : fetch.requests[i] = 1)

\* The semaphore is exhausted while a guarded_fetch still waits for it and an
\* earlier request has already ended.
C31_Witness ==
    /\ fetch.pc = "gather"
    /\ Cardinality(InFlight) = MAX_CONCURRENT
    /\ \E i \in DOMAIN fetch.stage : fetch.stage[i] = "waiting"
    /\ \E i \in DOMAIN fetch.stage : fetch.stage[i] = "done"

\* C32: the snapshot changes in two ways only. The step after both evaluations
\* have returned, in a cycle with a non-empty quote response and no exception,
\* replaces it by this cycle's quotes; the step that finds the interest set
\* empty empties it. Every other step, every path of a failed cycle to the
\* sleep included, leaves it as it was.
C32_SnapshotChanges ==
    /\ [](pc = "advance" => (quotes # EmptyDict /\ exc = ""))
    /\ [][/\ (pc = "advance" /\ pc' = "sleep") => prev_quotes' = quotes
          /\ (pc = "start" /\ pc' = "sleep") => (symbols' = {} /\ prev_quotes' = EmptyDict)
          /\ (~(pc = "advance" /\ pc' = "sleep") /\ ~(pc = "start" /\ pc' = "sleep")) =>
                 prev_quotes' = prev_quotes]_vars

\* A cycle that ended with an exception sleeps with the snapshot of an
\* earlier cycle, which is neither empty nor this cycle's quotes.
C32_Witness ==
    /\ pc = "sleep"
    /\ exc # ""
    /\ prev_quotes # EmptyDict
    /\ quotes # EmptyDict
    /\ prev_quotes # quotes

\* the cycle after the one whose single claim write raised
InRetryCycle == failed.cycle = "next" /\ pc # "sleep"

\* C33: a claim write that raises changes no row and no snapshot entry; the
\* alerts that had fired stay open up to the next claim, and through the next
\* cycle the snapshot is the one the failed cycle evaluated against. So when
\* the next cycle gets the same quotes, exactly the same alerts fire, and once
\* its claim write has returned they are claimed and handed to the notifier.
C33_RetriedNextCycle ==
    /\ [][(pc = "claim" /\ pc' = "raised") =>
             (alerts' = alerts /\ prev_quotes' = prev_quotes)]_vars
    /\ [](failed.cycle = "failed" => \A a \in failed.ids : IsOpen(alerts[a]))
    /\ []((InRetryCycle /\ pc \in {"start", "fetch", "check_alerts", "claim"}) =>
              \A a \in failed.ids : IsOpen(alerts[a]))
    /\ [](InRetryCycle => prev_quotes = failed.prev)
    /\ []((InRetryCycle /\ pc = "claim" /\ quotes = failed.quotes) =>
              Range(triggered_ids) = failed.ids)
    /\ []((InRetryCycle /\ pc = "notify" /\ quotes = failed.quotes) =>
              \A a \in failed.ids : IsClaimed(alerts[a]) /\ a \in DOMAIN tasks)

\* The cross/above alert a1 crossed its target in a cycle whose claim write
\* raised; the next cycle saw the same quotes, fired it again against the
\* price below the target, claimed it and handed it to the notifier.
C33_Witness ==
    /\ InRetryCycle
    /\ pc = "notify"
    /\ quotes = failed.quotes
    /\ "a1" \in failed.ids
    /\ EURUSD \in DOMAIN failed.prev
    /\ failed.prev[EURUSD] > 0
    /\ failed.prev[EURUSD] < AlertCols["a1"].price
    /\ IsClaimed(alerts["a1"])
    /\ "a1" \in DOMAIN tasks

\* the positions of run_worker inside check_correlation_alerts
InCorrelation == pc \in {"check_corr", "claim_corr", "notify_corr"}

\* the exceptions of the single-symbol read and claim write
SingleFailures == {"check_alerts.select", "check_alerts.update"}

\* C34: check_correlation_alerts runs only after check_alerts has returned
\* (its locals are gone, no exception is pending), and a cycle in which the
\* single-symbol read or claim write raised goes to the handler and the sleep
\* with no correlation alert read, claimed or handed to the notifier.
C34_CorrelationAfterSingle ==
    /\ [](InCorrelation =>
              (exc = "" /\ result_data = {} /\ triggered_ids = <<>> /\ notifications = <<>>
               /\ DOMAIN tasks \subseteq CorrIds))
    /\ [](exc \in SingleFailures =>
              (pc \in {"raised", "sleep"} /\ corr_result = {} /\ updates = <<>>
               /\ corr_notifications = <<>> /\ tasks = NoTasks))
    /\ [][exc' \in SingleFailures =>
             (corr_alerts' = corr_alerts /\ \A k \in CorrIds : handed'[k] = handed[k])]_vars

\* A cycle ended by the exception of the single claim write sleeps while an
\* open correlation alert has a leg in its zone.
C34_Witness ==
    /\ pc = "sleep"
    /\ exc = "check_alerts.update"
    /\ \E k \in CorrIds :
          /\ IsOpen(corr_alerts[k])
          /\ CorrTrigger(CorrCols[k], quotes, prev_quotes) # <<>>

\* the single-symbol rows a step marks triggered
MarkedBy(old, new) ==
    {a \in DOMAIN old \cap DOMAIN new : ~IsClaimed(old[a]) /\ IsClaimed(new[a])}

\* C35: in a cycle the claim write marks exactly the fired alerts (those whose
\* row still exists), the dispatch that follows hands exactly the fired alerts
\* to the notifier, and nothing else marks a single-symbol row or hands one
\* over; between the two steps the worker does nothing else. So the alerts
\* handed over in a cycle are the alerts its claim write marked.
C35_HandedIsClaimed ==
    /\ [](pc = "dispatch" =>
              (triggered_ids # <<>> /\ exc = ""
               /\ \A a \in Range(triggered_ids) \cap DOMAIN alerts : IsClaimed(alerts[a])))
    /\ [][/\ (pc = "claim" /\ pc' = "dispatch") =>
                 MarkedBy(alerts, alerts') = Range(triggered_ids) \cap DOMAIN alerts
          /\ ~(pc = "claim" /\ pc' = "dispatch") => MarkedBy(alerts, alerts') = {}
          /\ (pc = "dispatch" /\ pc' # "dispatch") =>
                 /\ pc' = "notify"
                 /\ DOMAIN tasks' = Range(triggered_ids)
                 /\ \A a \in SingleIds :
                        handed'[a] # handed[a] <=> a \in Range(triggered_ids)
          /\ ~(pc = "dispatch" /\ pc' # "dispatch") =>
                 \A a \in SingleIds : handed'[a] = handed[a]
         ]_vars

\* One of two rows read in a cycle fired: it is claimed and handed to the
\* notifier, the other is still open and was not handed over.
C35_Witness ==
    /\ pc = "notify"
    /\ DOMAIN tasks = {"a1"}
    /\ IsClaimed(alerts["a1"])
    /\ "a2" \in result_data \cap DOMAIN alerts
    /\ IsOpen(alerts["a2"])
    /\ handed["a2"] = 0

\* C36: a cancellation that hits the worker while notifier coroutines are
\* pending drops them and changes no row; a claimed row is never changed
\* again, and an alert whose notification was cut off is not handed to the
\* notifier a second time, neither before the shutdown ends nor by the worker
\* of a restarted process.
C36_LostNotDuplicated ==
    /\ [](\A a \in SingleIds \cup CorrIds : handed[a] <= 1)
    /\ [](\A a \in lifespan.dropped :
              /\ handed[a] = 1
              /\ a \notin DOMAIN tasks
              /\ (a \in DOMAIN alerts) => IsClaimed(alerts[a])
              /\ (a \in CorrIds) => IsClaimed(corr_alerts[a]))
    /\ [][/\ (lifespan.phase = "serving" /\ lifespan'.phase = "awaiting") =>
                 (tasks' = NoTasks /\ alerts' = alerts /\ corr_alerts' = corr_alerts
                  /\ handed' = handed)
          /\ \A a \in DOMAIN alerts \cap DOMAIN alerts' :
                 IsClaimed(alerts[a]) => alerts'[a] = alerts[a]
          /\ \A k \in CorrIds :
                 IsClaimed(corr_alerts[k]) => corr_alerts'[k] = corr_alerts[k]
         ]_vars

\* The worker of a restarted process evaluates quotes at which a1 would fire
\* from an empty snapshot; a1 was claimed and its notification cut off by the
\* shutdown, and it is not read again.
C36_Witness ==
    /\ lifespan.phase = "serving"
    /\ lifespan.at = "notify"
    /\ "a1" \in lifespan.dropped
    /\ pc = "claim"
    /\ AlertFires("a1", quotes, prev_quotes)
    /\ "a1" \notin result_data
    /\ handed["a1"] = 1

\* the snapshot has no usable price for the symbol: no entry, or a zero
NoUsablePrevious(snapshot, sym) ==
    snapshot = EmptyDict \/ sym \notin DOMAIN snapshot \/ snapshot[sym] = 0

\* the quotes have no usable price for the symbol: no quote, or a price <= 0
NoUsablePrice(q, sym) == sym \notin DOMAIN q \/ q[sym] <= 0

\* C37: a row whose quote has a zero, absent or negative price is skipped and
\* does not fire, and a correlation leg with such a price (or no quote) is
\* never the recorded leg, so an alert with two such legs is not appended to
\* the updates. A snapshot entry that is absent or zero gives no previous
\* price: a cross alert then fires iff the price has reached its target in
\* its direction, and a correlation leg qualifies only inside the zone.
C37_PriceSanitised ==
    /\ (evalc.pc \in {"row", "skipped", "returned"} /\ evalc.price <= 0) =>
           (evalc.pc # "returned" /\ ~evalc.triggered)
    /\ (evalc.pc = "returned" /\ NoUsablePrevious(evalc.snapshot, evalc.alert.symbol)) =>
           /\ evalc.prev_price = None
           /\ (evalc.alert.alert_type = "cross" /\ evalc.alert.direction = "above") =>
                  (evalc.triggered <=> evalc.price >= evalc.alert.price)
           /\ (evalc.alert.alert_type = "cross" /\ evalc.alert.direction = "below") =>
                  (evalc.triggered <=> evalc.price <= evalc.alert.price)
    /\ evalc.pc = "corr_returned" =>
           /\ \A sym \in {evalc.alert.symbol1, evalc.alert.symbol2} :
                  /\ NoUsablePrice(evalc.quotes, sym) => evalc.triggered_by # <<sym>>
                  /\ (evalc.triggered_by = <<sym>> /\ NoUsablePrevious(evalc.snapshot, sym)) =>
                         (evalc.alert.zone_low <= evalc.quotes[sym]
                          /\ evalc.quotes[sym] <= evalc.alert.zone_high)
           /\ (NoUsablePrice(evalc.quotes, evalc.alert.symbol1)
               /\ NoUsablePrice(evalc.quotes, evalc.alert.symbol2)) =>
                  (evalc.updates = <<>> /\ evalc.notifications = <<>>)

\* A cross/below alert was evaluated against a snapshot entry of zero and
\* fired by the fallback, the price being at or below its target.
C37_Witness ==
    /\ evalc.pc = "returned"
    /\ evalc.alert.alert_type = "cross"
    /\ evalc.alert.direction = "below"
    /\ evalc.alert.symbol \in DOMAIN evalc.snapshot
    /\ evalc.snapshot[evalc.alert.symbol] = 0
    /\ evalc.triggered

\* a pass of the reminder worker has ended and no store call of it raised
PassEndedWithoutStoreFailure ==
    reminder.pc = "sleep" /\ reminder.exc \notin {"select", "update"}

\* C38: in a pass without store failure every reminder selected has had
\* exactly one send attempt; each row is written after its send attempt,
\* whatever the send did: a recurring session reminder is rescheduled to the
\* next day and stays unsent, any other is marked sent, and a reminder marked
\* sent stays so and is not selected again; a write that raises changes no
\* row, so the reminder, already sent, is selected again by a later pass.
C38_ReminderSentThenWritten ==
    /\ [](PassEndedWithoutStoreFailure =>
              \A r \in Range(reminder.rows) : reminder.attempts[r] = 1)
    /\ [][/\ (reminder.pc = "write" /\ reminder'.pc \in {"fire", "sleep"}) =>
                 LET r == reminder.rows[reminder.i]
                 IN  /\ reminder.attempts[r] = 1
                     /\ RecurringSession(reminder.cols[r]) =>
                            reminder'.table[r] = RescheduledRow
                     /\ ~RecurringSession(reminder.cols[r]) => reminder'.table[r].sent
          /\ (reminder.pc = "write" /\ reminder'.pc = "raised") =>
                 (reminder'.exc = "update" /\ reminder'.table = reminder.table)
          /\ \A r \in ReminderIds :
                 reminder.table[r].sent =>
                    (reminder'.table[r].sent
                     /\ (reminder.pc = "start" /\ reminder'.pc # "start"
                            => r \notin Range(reminder'.rows)))
         ]_vars

====
